---- MODULE Spec2Model ----
(***************************************************************************)
(* Model of zdd's deployment planner and plan executor.                    *)
(*                                                                         *)
(*   deployment.go : LoadDeployments, loadDeployment, loadFiles,           *)
(*                   Deployment.Tasks, getNextDeploymentID,                *)
(*                   CreateDeployment, CompareDeployments                  *)
(*   plan.go       : BuildPlan, Plan.Execute, Plan.ExecuteScript           *)
(*   runner.go     : MigrationRunner.applySQLFiles                         *)
(*   postgres.go   : DB.RecordDeployment, DB.ExecuteSQLInTransaction       *)
(*                                                                         *)
(* The planner and the executor see a deployment through its ID, the       *)
(* 6-digit zero-padded directory prefix, kept as its numeric value: on     *)
(* fixed-width IDs the string order and the numeric order agree.  Where    *)
(* the IDs are made and parsed (CreateDeployment, the directory scan of    *)
(* LoadDeployments) a name is the sequence of its characters.              *)
(***************************************************************************)
EXTENDS Integers, Sequences, FiniteSets, TLC

VARIABLES
    dirs,                  \* deployments root: ID -> content of {ID}_{name}/
    ledger,                \* IDs with a row in zdd_deployments.applied_deployments
    pc,                    \* position of the CLI run
    tasks,                 \* Plan.Tasks
    alreadyDeployed,       \* Plan.AlreadyDeployed
    lastPendingID,         \* Execute: lastPendingID
    idx,                   \* Execute: index of the range loop over p.Tasks
    startedDeployments,    \* Execute: startedDeployments
    completedDeployments,  \* Execute: completedDeployments (its key set)
    recordQueue,           \* Execute: keys the recording loop has not visited
    err,                   \* Execute: returned error ("none" while running)
    events,                \* history of this run: collaborator calls, in order
    ledgerQueries,         \* GetAppliedDeployments calls of this run
    unlistable,            \* IDs whose directory os.ReadDir cannot list
    local,                 \* CompareDeployments: argument local
    applied,               \* CompareDeployments: argument applied (ledger rows)
    status,                \* CompareDeployments: returned DeploymentStatus
    root,                  \* the deployments root: "missing" or "present"
    listing,               \* os.ReadDir(root): entries [name, isDir]
    calls,                 \* CreateDeployment calls made so far, with results
    procs,                 \* concurrent CreateDeployment invocations
    loaded,                \* what LoadDeployments(root) returned
    sqlFiles,              \* the SQL files a run applies, in execution order
    fileIdx,               \* applySQLFiles: the file the loop is at
    committed,             \* database: effects of committed transactions
    sqlErr,                \* applySQLFiles: returned error ("none" while running)
    txArgs,                \* ExecuteSQLInTransaction: sqlStatements
    tx,                    \* ExecuteSQLInTransaction: the call and its transaction
    rootFiles,             \* plain files at the deployments root
    dirEntries,            \* os.ReadDir of one deployment directory (files)
    phases,                \* Deployment.Phases after loadFiles
    migration,             \* scripts of the Migration after LoadMigrations
    sumDeps,               \* the two deployments whose checksums are taken
    sums,                  \* CalculateChecksum invocations so far, with results
    runnerPending,         \* RunMigrations: status.Pending
    runner,                \* RunMigrations: position, error, effects so far
    racers,                \* two concurrent BuildPlan plus Execute runs
    appliedRows,           \* applied_deployments as the two runs share it
    configs,               \* LoadMigrationConfig: the two zdd.yaml files as parsed
    merged                 \* LoadMigrationConfig: the config it returned

planVars == <<dirs, ledger, pc, tasks, alreadyDeployed, lastPendingID, idx,
              startedDeployments, completedDeployments, recordQueue, err, events,
              ledgerQueries, unlistable>>

compareVars == <<local, applied, status>>

createVars == <<root, listing, calls, procs, loaded>>

sqlVars == <<sqlFiles, fileIdx, committed, sqlErr>>

txVars == <<txArgs, tx>>

fileVars == <<rootFiles, dirEntries, phases, migration>>

sumVars == <<sumDeps, sums>>

runnerVars == <<runnerPending, runner>>

raceVars == <<racers, appliedRows>>

configVars == <<configs, merged>>

vars == <<planVars, compareVars, createVars, sqlVars, txVars, fileVars, sumVars,
          runnerVars, raceVars, configVars>>

\* the variables a plan run leaves alone
outsidePlan == <<compareVars, createVars, sqlVars, txVars, fileVars, sumVars,
                 runnerVars, raceVars, configVars, unlistable>>

\* the variables CompareDeployments leaves alone
outsideCompare == <<planVars, createVars, sqlVars, txVars, fileVars, sumVars,
                     runnerVars, raceVars, configVars>>

\* the variables CreateDeployment leaves alone
outsideCreate == <<planVars, compareVars, sqlVars, txVars, fileVars, sumVars,
                    runnerVars, raceVars, configVars>>

\* the variables the SQL of a run leaves alone
outsideSQL == <<planVars, compareVars, createVars, txVars, fileVars, sumVars,
                 runnerVars, raceVars, configVars>>

\* the variables one ExecuteSQLInTransaction call leaves alone
outsideTx == <<planVars, compareVars, createVars, sqlVars, fileVars, sumVars,
                runnerVars, raceVars, configVars>>

\* the variables the loading of one directory leaves alone
outsideFiles == <<planVars, compareVars, createVars, sqlVars, txVars, sumVars,
                   runnerVars, raceVars, configVars>>

\* the variables RunMigrations leaves alone
outsideRunner == <<planVars, compareVars, createVars, sqlVars, txVars, fileVars,
                   sumVars, raceVars, configVars>>

\* the variables the two concurrent runs leave alone (they read dirs)
outsideRuns == <<planVars, compareVars, createVars, sqlVars, txVars, fileVars,
                 sumVars, runnerVars, configVars>>

\* the variables LoadMigrationConfig leaves alone
outsideConfig == <<planVars, compareVars, createVars, sqlVars, txVars, fileVars,
                   sumVars, runnerVars, raceVars, dirs, unlistable, root>>

\* the variables CalculateChecksum leaves alone
outsideSums == <<planVars, compareVars, createVars, sqlVars, txVars, fileVars,
                  runnerVars, raceVars, configVars>>

(***************************************************************************)
(* Bounds                                                                  *)
(***************************************************************************)
MaxDeployments == 3

\* CreateDeployment calls in one behaviour
MaxCreates == 3

IDs == 1..MaxDeployments

NoID == 0

(***************************************************************************)
(* Filesystem content of one deployment directory                          *)
(***************************************************************************)
phaseOrder == <<"expand", "migrate", "contract", "post">>

PhaseSet == {phaseOrder[i] : i \in 1..Len(phaseOrder)}

\* {phase}.sh : missing, present with an execute bit, present without one
ScriptKinds == {"absent", "exec", "noexec"}

\* {phase}.sql : missing, whitespace only, `--` comment lines only, statements
SqlKinds == {"absent", "blank", "comment", "sql"}

AllDirs == [PhaseSet -> [sh : ScriptKinds, sql : SqlKinds]]

EmptyDir == [p \in PhaseSet |-> [sh |-> "absent", sql |-> "absent"]]

\* the directory CreateDeployment scaffolds: every script executable, every
\* SQL template commented out, no post.sql
ScaffoldDir ==
    [p \in PhaseSet |->
        [sh |-> "exec", sql |-> IF p = "post" THEN "absent" ELSE "comment"]]

DirShapes ==
    { EmptyDir,
      ScaffoldDir,
      [EmptyDir EXCEPT !["migrate"].sql = "sql"],
      [EmptyDir EXCEPT !["expand"].sh = "exec", !["expand"].sql = "sql",
                       !["contract"].sql = "sql"],
      [EmptyDir EXCEPT !["migrate"].sh = "noexec", !["post"].sh = "exec"],
      [EmptyDir EXCEPT !["expand"].sh = "noexec", !["post"].sql = "sql"] }

(***************************************************************************)
(* deployment.go                                                           *)
(***************************************************************************)
\* loadFiles: a .sql file is attached whatever its content; a .sh file is
\* attached only when info.Mode()&0111 != 0.  A phase gets a map entry only
\* when one of the two assignments to deployment.Phases[phase] runs.
\* a loadFiles that attaches every {phase}.sh, whatever its mode
loadFilesAnyMode(dir) ==
    [p \in {q \in PhaseSet : dir[q].sql # "absent" \/ dir[q].sh # "absent"} |->
        [ScriptFilePath |-> dir[p].sh # "absent",
         SQLFilePath    |-> dir[p].sql # "absent"]]

loadFiles(dir) ==
    [p \in {q \in PhaseSet : dir[q].sql # "absent" \/ dir[q].sh = "exec"} |->
        [ScriptFilePath |-> dir[p].sh = "exec",
         SQLFilePath    |-> dir[p].sql # "absent"]]

\* matches[2] of the directory name of deployment id
NameOf(id) == <<"name", id>>

\* filepath.Join(deploymentsPath, dirName)
DirectoryOf(id) == <<"deployments", id, NameOf(id)>>

loadDeployment(id) ==
    [ID |-> id, Name |-> NameOf(id), Directory |-> DirectoryOf(id),
     Phases |-> loadFiles(dirs[id])]

\* IsNonEmptySQL: os.Stat succeeds, the content is not read
IsNonEmptySQL(kind) == kind # "absent"

Task(type, phase, id) == [TaskType |-> type, Phase |-> phase, Deployment |-> id]

PhaseTasks(d, phaseName) ==
    IF phaseName \notin DOMAIN d.Phases THEN <<>>
    ELSE (IF d.Phases[phaseName].ScriptFilePath
             THEN <<Task("script", phaseName, d.ID)>> ELSE <<>>)
         \o
         (IF d.Phases[phaseName].SQLFilePath /\ phaseName # "post"
             THEN <<Task("sql", phaseName, d.ID)>> ELSE <<>>)

RECURSIVE TasksFrom(_, _, _)
TasksFrom(d, order, i) ==
    IF i > Len(order) THEN <<>>
    ELSE PhaseTasks(d, order[i]) \o TasksFrom(d, order, i + 1)

\* Tasks ranging over the d.Phases map (here in key order) instead of phaseOrder
TasksInMapOrder(d) ==
    TasksFrom(d, <<"contract", "expand", "migrate", "post">>, 1)

\* a Tasks that resumes after the expand phase
TasksAfterExpand(d) == TasksFrom(d, <<"migrate", "contract", "post">>, 1)

\* Deployment.Tasks
Tasks(d) == TasksFrom(d, phaseOrder, 1)

\* sort.Slice(deployments, ID <): insertion into an ascending sequence
RECURSIVE InsertByID(_, _)
InsertByID(d, s) ==
    IF s = <<>> THEN <<d>>
    ELSE IF d.ID < Head(s).ID THEN <<d>> \o s
    ELSE <<Head(s)>> \o InsertByID(d, Tail(s))

\* LoadDeployments without its sort.Slice: the map's iteration order
Unsorted(s) == s

RECURSIVE SortByID(_)
SortByID(s) ==
    IF s = <<>> THEN <<>> ELSE InsertByID(Head(s), SortByID(Tail(s)))

\* the orders in which `range deploymentDirs` may visit the map
MapOrders(S) ==
    {f \in [1..Cardinality(S) -> S] :
        \A i, j \in 1..Cardinality(S) : i # j => f[i] # f[j]}

\* LoadDeployments, for one iteration order of the deploymentDirs map
LoadDeployments(order) ==
    SortByID([i \in 1..Len(order) |-> loadDeployment(order[i])])

(***************************************************************************)
(* plan.go                                                                 *)
(***************************************************************************)
\* BuildPlan without the alreadyDeployed test
RECURSIVE PlanTasksUnfiltered(_, _)
PlanTasksUnfiltered(localDeployments, already) ==
    IF localDeployments = <<>> THEN <<>>
    ELSE Tasks(Head(localDeployments))
         \o PlanTasksUnfiltered(Tail(localDeployments), already)

\* BuildPlan's loop over localDeployments
RECURSIVE PlanTasks(_, _)
PlanTasks(localDeployments, already) ==
    IF localDeployments = <<>> THEN <<>>
    ELSE (IF Head(localDeployments).ID \notin already
             THEN Tasks(Head(localDeployments)) ELSE <<>>)
         \o PlanTasks(Tail(localDeployments), already)

\* db.GetAppliedDeployments -> alreadyDeployed map
AppliedIDs == ledger

\* fmt.Sprintf("%t", b)
FormatBool(b) == IF b THEN "true" ELSE "false"

\* Plan.deploymentsPath and Plan.db.ConnectionString()
DeploymentsPath == "deployments"

ConnectionString == "postgres://zdd"

\* no child process: the call is not a script
NoCmd == [Env |-> <<>>, Dir |-> <<>>]

\* the environment MigrationRunner.executeScript builds: no ZDD_DATABASE_URL
CmdWithoutDatabaseURL(t, isHead) ==
    [Env |-> [ZDD_IS_HEAD          |-> FormatBool(isHead),
              ZDD_DEPLOYMENT_ID    |-> loadDeployment(t.Deployment).ID,
              ZDD_DEPLOYMENT_NAME  |-> loadDeployment(t.Deployment).Name,
              ZDD_PHASE            |-> t.Phase,
              ZDD_DEPLOYMENTS_PATH |-> DeploymentsPath],
     Dir |-> loadDeployment(t.Deployment).Directory]

\* ExecuteScript(task.Path, *task.Deployment, task.Phase, isHead): the
\* variables appended to cmd.Env, and cmd.Dir
Cmd(t, isHead) ==
    [Env |-> [ZDD_IS_HEAD          |-> FormatBool(isHead),
              ZDD_DEPLOYMENT_ID    |-> loadDeployment(t.Deployment).ID,
              ZDD_DEPLOYMENT_NAME  |-> loadDeployment(t.Deployment).Name,
              ZDD_PHASE            |-> t.Phase,
              ZDD_DEPLOYMENTS_PATH |-> DeploymentsPath,
              ZDD_DATABASE_URL     |-> ConnectionString],
     Dir |-> loadDeployment(t.Deployment).Directory]

Event(kind, t, isHead, ok) ==
    [kind |-> kind, dep |-> t.Deployment, phase |-> t.Phase,
     type |-> t.TaskType, isHead |-> isHead, ok |-> ok,
     cmd |-> IF t.TaskType = "script" THEN Cmd(t, isHead) ELSE NoCmd]

RecordEvent(id, ok) ==
    [kind |-> "record", dep |-> id, phase |-> "-", type |-> "-",
     isHead |-> FALSE, ok |-> ok, cmd |-> NoCmd]

\* a LoadDeployments in which loadFiles never fails
LoadNeverFails == FALSE

\* LoadDeployments returns nil and an error: the root exists and loadFiles
\* fails on one of the deployment directories
LoadFails == root = "present" /\ unlistable # {}

\* the deployment directories LoadDeployments sees: none when os.Stat
\* reports that the root does not exist
VisibleDirs == IF root = "missing" THEN {} ELSE DOMAIN dirs

BuildPlan ==
    /\ pc = "idle"
    /\ IF LoadFails
          THEN /\ pc' = "done"
               /\ err' = "error"
               /\ UNCHANGED <<tasks, alreadyDeployed, ledgerQueries>>
          ELSE /\ \E order \in MapOrders(VisibleDirs) :
                     /\ tasks' = PlanTasks(LoadDeployments(order), AppliedIDs)
                     /\ alreadyDeployed' = AppliedIDs
               /\ ledgerQueries' = ledgerQueries + 1
               /\ pc' = "built"
               /\ UNCHANGED err
    /\ UNCHANGED <<dirs, ledger, lastPendingID, idx, startedDeployments,
                   completedDeployments, recordQueue, events>>
    /\ UNCHANGED outsidePlan

\* an Execute that records every local deployment when nothing is pending
ExecuteBeginRecordsAll ==
    /\ pc = "built"
    /\ pc' = IF Len(tasks) = 0 THEN "record" ELSE "loop"
    /\ recordQueue' = IF Len(tasks) = 0 THEN VisibleDirs \ ledger ELSE recordQueue
    /\ lastPendingID' = IF Len(tasks) = 0 THEN lastPendingID
                        ELSE tasks[Len(tasks)].Deployment
    /\ idx' = 1
    /\ startedDeployments' = {}
    /\ completedDeployments' = {}
    /\ UNCHANGED <<dirs, ledger, tasks, alreadyDeployed, err, events>>
    /\ UNCHANGED ledgerQueries
    /\ UNCHANGED outsidePlan

\* Task.Deployment is a pointer; a hand-built Plan may leave it nil
NilDeployment == 0 - 1

\* Execute, up to the range loop
ExecuteBegin ==
    /\ pc = "built"
    /\ IF Len(tasks) = 0
          THEN /\ pc' = "done"
               /\ err' = "nil"
               /\ UNCHANGED lastPendingID
          ELSE IF tasks[Len(tasks)].Deployment = NilDeployment
          THEN /\ pc' = "done"
               /\ err' = "panic"
               /\ UNCHANGED lastPendingID
          ELSE /\ pc' = "loop"
               /\ lastPendingID' = tasks[Len(tasks)].Deployment
               /\ UNCHANGED err
    /\ idx' = 1
    /\ startedDeployments' = {}
    /\ completedDeployments' = {}
    /\ UNCHANGED <<dirs, ledger, tasks, alreadyDeployed, recordQueue, events>>
    /\ UNCHANGED ledgerQueries
    /\ UNCHANGED outsidePlan

\* a failed task that is logged and skipped (continue on error)
TaskFailsContinue ==
    /\ idx' = idx + 1
    /\ UNCHANGED <<pc, err, completedDeployments, recordQueue>>

\* a failed task that breaks out of the loop into the recording loop
TaskFailsThenRecord ==
    /\ pc' = "record"
    /\ recordQueue' = completedDeployments
    /\ UNCHANGED <<idx, err, completedDeployments>>

\* a task returned an error: Execute returns it at once
TaskFails ==
    /\ pc' = "done"
    /\ err' = "error"
    /\ UNCHANGED <<idx, completedDeployments, recordQueue>>

\* a loop that passes over the task after a successful one
TaskSucceedsSkipsNext(t) ==
    /\ completedDeployments' = completedDeployments \cup {t.Deployment}
    /\ idx' = idx + 2
    /\ UNCHANGED <<pc, err, recordQueue>>

\* a task returned nil: completedDeployments[task.Deployment.ID] = deployment
TaskSucceeds(t) ==
    /\ completedDeployments' = completedDeployments \cup {t.Deployment}
    /\ idx' = idx + 1
    /\ UNCHANGED <<pc, err, recordQueue>>

\* p.AlreadyDeployed[task.Deployment.ID]: reading .ID through a nil pointer
\* is a run-time panic
DerefPanics(t) == t.Deployment = NilDeployment

\* one iteration of `for _, task := range p.Tasks`
ExecuteTask ==
    /\ pc = "loop"
    /\ idx <= Len(tasks)
    /\ LET t == tasks[idx]
           isHead == t.Deployment = lastPendingID
       IN IF DerefPanics(t)
             THEN /\ pc' = "done"
                  /\ err' = "panic"
                  /\ UNCHANGED <<idx, startedDeployments,
                                 completedDeployments, recordQueue, events>>
          ELSE IF t.Deployment \in alreadyDeployed
             THEN /\ idx' = idx + 1
                  /\ UNCHANGED <<pc, err, startedDeployments,
                                 completedDeployments, recordQueue, events>>
          ELSE IF t.Deployment = NilDeployment
             THEN /\ pc' = "done"
                  /\ err' = "missing deployment metadata"
                  /\ UNCHANGED <<idx, startedDeployments,
                                 completedDeployments, recordQueue, events>>
             ELSE /\ startedDeployments' = startedDeployments \cup {t.Deployment}
                  /\ \E ok \in BOOLEAN :
                        /\ events' = Append(events, Event("task", t, isHead, ok))
                        /\ IF ok THEN TaskSucceeds(t) ELSE TaskFails
    /\ UNCHANGED <<dirs, ledger, tasks, alreadyDeployed, lastPendingID>>
    /\ UNCHANGED ledgerQueries
    /\ UNCHANGED outsidePlan

\* the range loop is exhausted: go on to the recording loop
LoopEnd ==
    /\ pc = "loop"
    /\ idx > Len(tasks)
    /\ pc' = "record"
    /\ recordQueue' = completedDeployments
    /\ UNCHANGED <<dirs, ledger, tasks, alreadyDeployed, lastPendingID, idx,
                   startedDeployments, completedDeployments, err, events>>
    /\ UNCHANGED ledgerQueries
    /\ UNCHANGED outsidePlan

\* DB.RecordDeployment: a plain INSERT into a table whose primary key is id
RecordDeploymentOK(id, dbOK) == dbOK /\ id \notin ledger

\* a write that replaces the rows of the table by the new row
ReplaceRows(rows, id) == {id}

\* INSERT INTO zdd_deployments.applied_deployments
InsertRow(rows, id) == rows \cup {id}

\* one iteration of `for deploymentID, deployment := range completedDeployments`
RecordStep ==
    /\ pc = "record"
    /\ \E id \in recordQueue, dbOK \in BOOLEAN :
          LET ok == RecordDeploymentOK(id, dbOK)
          IN /\ events' = Append(events, RecordEvent(id, ok))
             /\ recordQueue' = recordQueue \ {id}
             /\ IF ok
                   THEN /\ ledger' = InsertRow(ledger, id)
                        /\ UNCHANGED <<pc, err>>
                   ELSE /\ pc' = "done"
                        /\ err' = "error"
                        /\ UNCHANGED ledger
    /\ UNCHANGED <<dirs, tasks, alreadyDeployed, lastPendingID, idx,
                   startedDeployments, completedDeployments>>
    /\ UNCHANGED ledgerQueries
    /\ UNCHANGED outsidePlan

\* every completed deployment is recorded: Execute returns nil
RecordEnd ==
    /\ pc = "record"
    /\ recordQueue = {}
    /\ pc' = "done"
    /\ err' = "nil"
    /\ UNCHANGED <<dirs, ledger, tasks, alreadyDeployed, lastPendingID, idx,
                   startedDeployments, completedDeployments, recordQueue, events>>
    /\ UNCHANGED ledgerQueries
    /\ UNCHANGED outsidePlan

\* the process exits; the next `zdd deploy` starts from the ledger alone
NextRun ==
    /\ pc = "done"
    /\ pc' = "idle"
    /\ tasks' = <<>>
    /\ alreadyDeployed' = {}
    /\ lastPendingID' = NoID
    /\ idx' = 1
    /\ startedDeployments' = {}
    /\ completedDeployments' = {}
    /\ recordQueue' = {}
    /\ err' = "none"
    /\ events' = <<>>
    /\ ledgerQueries' = 0
    /\ UNCHANGED <<dirs, ledger>>
    /\ UNCHANGED outsidePlan

(***************************************************************************)
(* Names.  A string is a sequence of one-character strings, so that the    *)
(* pattern match, the formatting and the byte order act on its characters. *)
(***************************************************************************)
Digits == <<"0", "1", "2", "3", "4", "5", "6", "7", "8", "9">>

DigitSet == {Digits[i] : i \in 1..Len(Digits)}

\* the characters of the model in byte order (ASCII)
ByteOrder == <<" ">> \o Digits \o <<"A", "B", "_", "a", "b", "x", "z">>

Ord(c) == CHOOSE i \in 1..Len(ByteOrder) : ByteOrder[i] = c

\* Go's < on strings: bytewise, a proper prefix is smaller
RECURSIVE StrLess(_, _)
StrLess(a, b) ==
    IF b = <<>> THEN FALSE
    ELSE IF a = <<>> THEN TRUE
    ELSE IF Head(a) # Head(b) THEN Ord(Head(a)) < Ord(Head(b))
    ELSE StrLess(Tail(a), Tail(b))

\* the width of \d{6} in deploymentDirPattern and of %06d
IDWidth == 6

\* deploymentDirPattern ^(\d{6})_(.+)$ matches name
MatchesDirPattern(name) ==
    /\ Len(name) > IDWidth + 1
    /\ \A i \in 1..IDWidth : name[i] \in DigitSet
    /\ name[IDWidth + 1] = "_"

\* matches[1] and matches[2]
MatchID(name) == SubSeq(name, 1, IDWidth)

MatchName(name) == SubSeq(name, IDWidth + 2, Len(name))

\* strconv.Atoi on a string of digits
RECURSIVE Atoi(_)
Atoi(s) ==
    IF s = <<>> THEN 0
    ELSE Atoi(SubSeq(s, 1, Len(s) - 1)) * 10
         + (CHOOSE v \in 0..9 : Digits[v + 1] = s[Len(s)])

\* %d
RECURSIVE Itoa(_)
Itoa(n) ==
    IF n < 10 THEN <<Digits[n + 1]>>
    ELSE Itoa(n \div 10) \o <<Digits[(n % 10) + 1]>>

\* fmt.Sprintf("%06d", n): zeros up to the minimum width, never truncated
Sprintf06(n) ==
    IF Len(Itoa(n)) >= IDWidth THEN Itoa(n)
    ELSE [i \in 1..(IDWidth - Len(Itoa(n))) |-> "0"] \o Itoa(n)

\* strings.ToLower(strings.ReplaceAll(name, " ", "_"))
Sanitize(raw) ==
    [i \in 1..Len(raw) |->
        CASE raw[i] = " " -> "_"
          [] raw[i] = "A" -> "a"
          [] raw[i] = "B" -> "b"
          [] OTHER -> raw[i]]

\* fmt.Sprintf("%s_%s", id, name)
DirName(id, name) == id \o <<"_">> \o name

Entry(name, isDir) == [name |-> name, isDir |-> isDir]

\* the directories of a listing whose name matches deploymentDirPattern
MatchingDirs(entries) ==
    {e.name : e \in {x \in entries : x.isDir /\ MatchesDirPattern(x.name)}}

\* the last element of a set of names in the order os.ReadDir returns them
LastName(names) == CHOOSE n \in names : \A m \in names : m = n \/ StrLess(m, n)

FirstID == <<"0", "0", "0", "0", "0", "1">>

\* getNextDeploymentID: the first matching directory from the end of the
\* sorted listing gives lastID
getNextDeploymentID(rootState, entries) ==
    IF rootState = "missing" \/ MatchingDirs(entries) = {} THEN FirstID
    ELSE Sprintf06(Atoi(MatchID(LastName(MatchingDirs(entries)))) + 1)

\* LoadDeployments, first loop: deploymentDirs[id] = entry.Name() for every
\* matching directory of the sorted listing, so the last name of an ID stays
deploymentDirs(entries) ==
    [id \in {MatchID(n) : n \in MatchingDirs(entries)} |->
        LastName({n \in MatchingDirs(entries) : MatchID(n) = id})]

\* sort.Slice by ID with Go's string <
RECURSIVE SortIDs(_)
SortIDs(S) ==
    IF S = {} THEN <<>>
    ELSE LET m == CHOOSE x \in S : \A y \in S : y = x \/ StrLess(x, y)
         IN <<m>> \o SortIDs(S \ {m})

\* LoadDeployments on a listing: ID, Name and Directory of each deployment
LoadedDeployments(rootState, entries) ==
    IF rootState = "missing" THEN <<>>
    ELSE LET dd == deploymentDirs(entries)
             ids == SortIDs(DOMAIN dd)
         IN [i \in 1..Len(ids) |->
                [ID |-> ids[i], Name |-> MatchName(dd[ids[i]]),
                 Directory |-> dd[ids[i]]]]

\* LoadDeployments has not returned
NoLoad == [set |-> FALSE, deployments |-> <<>>]

\* one call of LoadDeployments(root)
Load ==
    /\ ~loaded.set
    /\ loaded' = [set |-> TRUE, deployments |-> LoadedDeployments(root, listing)]
    /\ UNCHANGED <<root, listing, calls, procs>>
    /\ UNCHANGED outsideCreate

\* entries a deployments root may hold: two directories with one ID, plain
\* files, directories with no, five or seven leading digits
RootEntries ==
    { Entry(<<"0", "0", "0", "0", "0", "1", "_", "a">>, TRUE),
      Entry(<<"0", "0", "0", "0", "0", "1", "_", "b">>, TRUE),
      Entry(<<"0", "0", "0", "0", "0", "2", "_", "a">>, TRUE),
      Entry(<<"0", "0", "0", "0", "0", "3", "_", "a">>, FALSE),
      Entry(<<"0", "0", "0", "0", "4", "_", "a">>, TRUE),
      Entry(<<"1", "0", "0", "0", "0", "0", "0", "_", "a">>, TRUE),
      Entry(<<"z", "z">>, TRUE),
      Entry(<<"x">>, FALSE) }

(***************************************************************************)
(* deployment.go: CreateDeployment                                         *)
(***************************************************************************)
RawNames == {<<"a">>, <<"A", " ", "B">>}

\* where a call can fail: os.ReadDir, the second os.MkdirAll, os.WriteFile
Failures == {"none", "readdir", "mkdir", "write"}

\* what the call appends to the history: its argument, the root it found,
\* and the *Deployment it returned (ok = FALSE: nil and an error)
CallRecord(raw, fail, id, name) ==
    [raw |-> raw, ok |-> fail = "none", fail |-> fail,
     rootBefore |-> root, before |-> listing,
     ID |-> IF fail = "none" THEN id ELSE <<>>,
     Name |-> IF fail = "none" THEN name ELSE <<>>,
     Directory |-> IF fail = "none" THEN DirName(id, name) ELSE <<>>]

\* a CreateDeployment that removes the directory when a file write fails
ListingAfterRollback(fail, ls, e) ==
    IF fail = "none" THEN ls \cup {e} ELSE ls

\* the root after the call: os.MkdirAll(deploymentPath) adds the directory,
\* and a failing os.WriteFile returns without removing it
ListingAfter(fail, ls, e) ==
    IF fail \in {"readdir", "mkdir"} THEN ls ELSE ls \cup {e}

\* one whole call of CreateDeployment(deploymentsPath, raw)
CreateDeployment ==
    /\ Len(calls) < MaxCreates
    /\ \E raw \in RawNames, fail \in Failures :
          LET name == Sanitize(raw)
              id == getNextDeploymentID(root, listing)
          IN /\ fail = "readdir" => root = "present"
             /\ root' = IF fail = "readdir" THEN root ELSE "present"
             /\ listing' = ListingAfter(fail, listing, Entry(DirName(id, name), TRUE))
             /\ calls' = Append(calls, CallRecord(raw, fail, id, name))
    /\ UNCHANGED <<procs, loaded>>
    /\ UNCHANGED outsideCreate

\* the two concurrent invocations
Procs == {"p", "q"}

NoProc == [pc |-> "none", raw |-> <<>>, id |-> <<>>]

\* one invocation up to the return of getNextDeploymentID
GetID(p) ==
    /\ procs[p].pc = "start"
    /\ procs' = [procs EXCEPT ![p].pc = "gotID",
                              ![p].id = getNextDeploymentID(root, listing)]
    /\ UNCHANGED <<root, listing, calls, loaded>>
    /\ UNCHANGED outsideCreate

\* the two os.MkdirAll calls
Mkdir(p) ==
    /\ procs[p].pc = "gotID"
    /\ root' = "present"
    /\ \E ok \in BOOLEAN :
          IF ok
             THEN /\ listing' = listing \cup
                        {Entry(DirName(procs[p].id, Sanitize(procs[p].raw)), TRUE)}
                  /\ procs' = [procs EXCEPT ![p].pc = "made"]
             ELSE /\ procs' = [procs EXCEPT ![p].pc = "failed"]
                  /\ UNCHANGED listing
    /\ UNCHANGED <<calls, loaded>>
    /\ UNCHANGED outsideCreate

\* the os.WriteFile loop and the return
WriteFiles(p) ==
    /\ procs[p].pc = "made"
    /\ \E ok \in BOOLEAN :
          procs' = [procs EXCEPT ![p].pc = IF ok THEN "returned" ELSE "failed"]
    /\ UNCHANGED <<root, listing, calls, loaded>>
    /\ UNCHANGED outsideCreate

\* no CreateDeployment call made
CreateIdle ==
    /\ listing = {}
    /\ calls = <<>>
    /\ procs = [p \in Procs |-> NoProc]
    /\ loaded = NoLoad

\* the roots a call may find: none, an empty one, one with a deployment, a
\* plain file and a foreign directory, and one whose last ID is 999998
InitRoots ==
    { [root |-> "missing", listing |-> {}],
      [root |-> "present", listing |-> {}],
      [root |-> "present",
       listing |-> {Entry(<<"0", "0", "0", "0", "0", "1", "_", "a">>, TRUE),
                    Entry(<<"0", "0", "0", "0", "0", "7", "_", "b">>, FALSE),
                    Entry(<<"z", "z">>, TRUE)}],
      [root |-> "present",
       listing |-> {Entry(<<"9", "9", "9", "9", "9", "8", "_", "x">>, TRUE)}] }

(***************************************************************************)
(* deployment.go: CompareDeployments                                       *)
(***************************************************************************)
\* Deployment.AppliedAt == nil
NoTime == 0

\* status before CompareDeployments has returned
NoStatus == [Applied |-> <<>>, Pending |-> <<>>, Missing |-> <<>>, set |-> FALSE]

\* a Deployment loaded from the directory {id}_{name}
LocalDeployment(id) == [ID |-> id, Name |-> <<"dir", id>>, AppliedAt |-> NoTime]

\* the sequences over S in which no element occurs twice
DistinctSeqs(S) ==
    UNION {{f \in [1..n -> S] : \A i, j \in 1..n : i # j => f[i] # f[j]} :
              n \in 0..Cardinality(S)}

\* local: deployments with pairwise distinct IDs, in any order
LocalInputs == {[i \in 1..Len(q) |-> LocalDeployment(q[i])] : q \in DistinctSeqs(IDs)}

\* applied: the rows of applied_deployments (primary key id) as
\* GetAppliedDeployments returns them, ORDER BY applied_at ASC
AppliedInputs ==
    {[i \in 1..Len(q) |-> [ID |-> q[i], Name |-> <<"row", q[i]>>, AppliedAt |-> i]] :
        q \in DistinctSeqs(IDs)}

\* appliedMap[m.ID] = m for every row in turn: the last row of an ID stays
appliedMap(rows) ==
    [id \in {rows[i].ID : i \in 1..Len(rows)} |->
        rows[CHOOSE i \in 1..Len(rows) :
                /\ rows[i].ID = id
                /\ \A j \in 1..Len(rows) : rows[j].ID = id => j <= i]]

\* the key set of localMap
localMap(loc) == {loc[i].ID : i \in 1..Len(loc)}

\* the Applied branch of the classifying loop
RECURSIVE AppliedOf(_, _)
AppliedOf(loc, am) ==
    IF loc = <<>> THEN <<>>
    ELSE (IF Head(loc).ID \in DOMAIN am
             THEN <<[Head(loc) EXCEPT !.AppliedAt = am[Head(loc).ID].AppliedAt]>>
             ELSE <<>>)
         \o AppliedOf(Tail(loc), am)

\* a classifying loop that appends every local deployment to Pending
PendingOfAll(loc, am) == loc

\* the Pending branch of the classifying loop
RECURSIVE PendingOf(_, _)
PendingOf(loc, am) ==
    IF loc = <<>> THEN <<>>
    ELSE (IF Head(loc).ID \in DOMAIN am THEN <<>> ELSE <<Head(loc)>>)
         \o PendingOf(Tail(loc), am)

\* the second loop.  AppliedAt is &appliedRecord.AppliedAt: with one loop
\* variable per iteration (Go >= 1.22) it is the row's own time, with one
\* variable for the whole loop every pointer ends at the last row's time.
RECURSIVE MissingOf(_, _, _, _)
MissingOf(rows, i, lm, perIteration) ==
    IF i > Len(rows) THEN <<>>
    ELSE (IF rows[i].ID \in lm THEN <<>>
          ELSE <<[ID |-> rows[i].ID, Name |-> rows[i].Name,
                  AppliedAt |-> IF perIteration THEN rows[i].AppliedAt
                                ELSE rows[Len(rows)].AppliedAt]>>)
         \o MissingOf(rows, i + 1, lm, perIteration)

CompareDeployments(loc, rows, perIteration) ==
    [Applied |-> AppliedOf(loc, appliedMap(rows)),
     Pending |-> PendingOf(loc, appliedMap(rows)),
     Missing |-> MissingOf(rows, 1, localMap(loc), perIteration),
     set     |-> TRUE]

\* one call of CompareDeployments
Compare ==
    /\ ~status.set
    /\ \E perIteration \in BOOLEAN :
          status' = CompareDeployments(local, applied, perIteration)
    /\ UNCHANGED <<local, applied>>
    /\ UNCHANGED outsideCompare

\* no call of CompareDeployments is under way
CompareIdle ==
    /\ local = <<>>
    /\ applied = <<>>
    /\ status = NoStatus

(***************************************************************************)
(* runner.go: applySQLFiles; postgres.go: ExecuteSQLInTransaction          *)
(***************************************************************************)
\* an SQL file of the phase of a deployment: {phase}.sql has Sequence 0,
\* {phase}.{n}.sql has Sequence n; stmts statements when content is "sql"
SQLFile(dep, phase, seq, content, stmts) ==
    [dep |-> dep, phase |-> phase, Sequence |-> seq, Content |-> content,
     stmts |-> stmts]

\* the SQL files of two pending deployments in the order a run reaches them
AllSQLFiles ==
    << SQLFile(1, "expand", 0, "sql", 1),
       SQLFile(1, "expand", 1, "sql", 2),
       SQLFile(1, "migrate", 0, "comment", 0),
       SQLFile(1, "contract", 1, "sql", 1),
       SQLFile(2, "expand", 1, "sql", 1),
       SQLFile(2, "expand", 2, "sql", 2) >>

\* the sub-lists of AllSQLFiles: the files that exist, in the same order
RECURSIVE SubLists(_)
SubLists(fs) ==
    IF fs = <<>> THEN {<<>>}
    ELSE SubLists(Tail(fs)) \cup {<<Head(fs)>> \o r : r \in SubLists(Tail(fs))}

\* HasNonEmptySQL([]SQLFile{sqlFile}): a line that is not blank or a comment
HasNonEmptySQL(f) == f.Content \in {"sql", "headed"}

\* what the statements 1..n of file k do to the database
Effects(k, n) == {<<k, i>> : i \in 1..n}

\* a database session without a transaction: every statement commits alone
ExecuteSQLAutocommit(db, k, n, done, ok) == db \cup Effects(k, done)

\* ExecuteSQLInTransaction(content) for file k with n statements, of which
\* done succeed; ok = the commit succeeded.  Any error returns through the
\* deferred tx.Rollback.
ExecuteSQLInTransaction(db, k, n, done, ok) ==
    IF ok THEN db \cup Effects(k, n) ELSE db

\* one iteration of the loop of applySQLFiles
ApplySQLFile ==
    /\ sqlErr = "none"
    /\ fileIdx <= Len(sqlFiles)
    /\ LET f == sqlFiles[fileIdx]
       IN IF ~HasNonEmptySQL(f)
             THEN /\ fileIdx' = fileIdx + 1
                  /\ UNCHANGED <<committed, sqlErr>>
             ELSE \E done \in 0..f.stmts, ok \in BOOLEAN :
                     /\ ok => done = f.stmts
                     /\ committed' =
                           ExecuteSQLInTransaction(committed, fileIdx, f.stmts, done, ok)
                     /\ IF ok
                           THEN fileIdx' = fileIdx + 1 /\ UNCHANGED sqlErr
                           ELSE sqlErr' = "error" /\ UNCHANGED fileIdx
    /\ UNCHANGED sqlFiles
    /\ UNCHANGED outsideSQL

\* no SQL applied
SqlIdle ==
    /\ sqlFiles = <<>>
    /\ fileIdx = 1
    /\ committed = {}
    /\ sqlErr = "none"

(***************************************************************************)
(* postgres.go: ExecuteSQLInTransaction, one database round trip per step  *)
(***************************************************************************)
\* bound on the statements passed to one call
MaxStatements == 4

\* a statement is "blank" when strings.TrimSpace(sql) == ""
StatementKinds == {"blank", "stmt"}

TxArgs == UNION {[1..n -> StatementKinds] : n \in 0..MaxStatements}

\* no call made: i is the index of the range loop, pending the effects inside
\* the open transaction, visible the effects other sessions see, executed the
\* statements handed to tx.Exec, in order
NoTx ==
    [pc |-> "idle", i |-> 1, pending |-> {}, visible |-> {},
     executed |-> <<>>, err |-> "none"]

\* a rollback that keeps what the transaction did so far
RollbackKeeps(t) ==
    [t EXCEPT !.visible = @ \cup t.pending, !.pending = {},
              !.pc = "returned", !.err = "error"]

\* return of an error through the deferred tx.Rollback
Rollback(t) ==
    [t EXCEPT !.pending = {}, !.pc = "returned", !.err = "error"]

\* db.pool.Begin; on failure the call returns before the defer is set
TxBegin ==
    /\ tx.pc = "idle"
    /\ \E ok \in BOOLEAN :
          tx' = IF ok THEN [tx EXCEPT !.pc = "loop"]
                      ELSE [tx EXCEPT !.pc = "returned", !.err = "error"]
    /\ UNCHANGED txArgs
    /\ UNCHANGED outsideTx

\* one iteration of the range loop over sqlStatements
TxExec ==
    /\ tx.pc = "loop"
    /\ tx.i <= Len(txArgs)
    /\ IF txArgs[tx.i] = "blank"
          THEN tx' = [tx EXCEPT !.i = @ + 1]
          ELSE \E ok \in BOOLEAN :
                  LET t == [tx EXCEPT !.executed = Append(@, tx.i)]
                  IN tx' = IF ok THEN [t EXCEPT !.pending = @ \cup {tx.i},
                                                !.i = @ + 1]
                                 ELSE Rollback(t)
    /\ UNCHANGED txArgs
    /\ UNCHANGED outsideTx

\* tx.Commit after the loop; the deferred Rollback after a commit is ignored
TxCommit ==
    /\ tx.pc = "loop"
    /\ tx.i > Len(txArgs)
    /\ \E ok \in BOOLEAN :
          tx' = IF ok THEN [tx EXCEPT !.visible = @ \cup tx.pending,
                                       !.pending = {}, !.pc = "returned",
                                       !.err = "nil"]
                      ELSE Rollback(tx)
    /\ UNCHANGED txArgs
    /\ UNCHANGED outsideTx

\* no call in progress
TxIdle ==
    /\ txArgs = <<>>
    /\ tx = NoTx

(***************************************************************************)
(* deployment.go: loadFiles; migrations.go: loadScript, LoadMigrations,    *)
(* file name by file name                                                  *)
(***************************************************************************)
\* the file name {phase}.{ext}, or {phase}.{num}.{ext} when num is a string
\* of digits
FileName(phase, num, ext) == [phase |-> phase, num |-> num, ext |-> ext]

\* a directory entry that is a plain file; exec: info.Mode()&0111 != 0
File(name, exec) == [name |-> name, exec |-> exec]

\* files a deployment directory may hold
DeploymentFiles ==
    { File(FileName("expand", <<>>, "sql"), FALSE),
      File(FileName("expand", <<"1">>, "sql"), FALSE),
      File(FileName("expand", <<"2">>, "sql"), FALSE),
      File(FileName("expand", <<"1", "0">>, "sql"), FALSE),
      File(FileName("migrate", <<>>, "sql"), FALSE),
      File(FileName("expand", <<>>, "sh"), TRUE),
      File(FileName("migrate", <<>>, "sh"), FALSE),
      File(FileName("post", <<>>, "sh"), TRUE),
      File(FileName("notes", <<>>, "txt"), FALSE) }

\* plain files the deployments root may hold
RootFiles ==
    { File(FileName("expand", <<>>, "sh"), TRUE),
      File(FileName("migrate", <<>>, "sh"), TRUE),
      File(FileName("contract", <<>>, "sh"), FALSE) }

\* a nil *string, a nil *ScriptFile
NoFile == <<>>

\* filepath.Join(dir, name)
Join(dir, name) == <<dir, name>>

\* ^(expand|migrate|contract|post)\.(sh|sql)$
deploymentFilePattern(name) ==
    /\ name.phase \in PhaseSet
    /\ name.num = <<>>
    /\ name.ext \in {"sh", "sql"}

\* loadFiles over the entries es of the deployment directory
loadFilesByName(es) ==
    [p \in PhaseSet |->
        [ScriptFilePath |->
            IF \E e \in es : /\ deploymentFilePattern(e.name)
                             /\ e.name = FileName(p, <<>>, "sh")
                             /\ e.exec
               THEN Join("deployment", FileName(p, <<>>, "sh")) ELSE NoFile,
         SQLFilePath |->
            IF \E e \in es : /\ deploymentFilePattern(e.name)
                             /\ e.name = FileName(p, <<>>, "sql")
               THEN Join("deployment", FileName(p, <<>>, "sql")) ELSE NoFile]]

\* loadScript(dir, filename): os.Stat succeeds
loadScript(dir, files, filename) ==
    IF \E e \in files : e.name = filename THEN Join(dir, filename) ELSE NoFile

\* a fallback that replaces the migration's own script
ApplyDefaultAlways(own, default) ==
    IF default # NoFile THEN default ELSE own

\* LoadMigrations: apply default scripts as fallbacks
ApplyDefault(own, default) ==
    IF own = NoFile /\ default # NoFile THEN default ELSE own

\* the scripts of a migration after LoadMigrations
LoadMigrationScripts(rs, es) ==
    [p \in PhaseSet |->
        ApplyDefault(loadScript("deployment", es, FileName(p, <<>>, "sh")),
                     loadScript("root", rs, FileName(p, <<>>, "sh")))]

\* the Phases map, or the scripts, before the directory is loaded
NotLoaded == [p \in {} |-> NoFile]

\* LoadDeployments reaches the directory: loadDeployment, loadFiles
LoadFiles ==
    /\ phases = NotLoaded
    /\ phases' = loadFilesByName(dirEntries)
    /\ UNCHANGED <<rootFiles, dirEntries, migration>>
    /\ UNCHANGED outsideFiles

\* LoadMigrations reaches the directory: loadMigration, then the fallbacks
LoadMigration ==
    /\ migration = NotLoaded
    /\ migration' = LoadMigrationScripts(rootFiles, dirEntries)
    /\ UNCHANGED <<rootFiles, dirEntries, phases>>
    /\ UNCHANGED outsideFiles

\* nothing loaded file by file
FilesIdle ==
    /\ rootFiles = {}
    /\ dirEntries = {}
    /\ phases = NotLoaded
    /\ migration = NotLoaded

(***************************************************************************)
(* deployment.go: CalculateChecksum                                        *)
(***************************************************************************)
\* a loaded deployment and the content of its {phase}.sql files on disk
\* ("absent": no such file, so a nil SQLFilePath)
SumDeployment(id, sql) == [ID |-> id, Directory |-> DirectoryOf(id), sql |-> sql]

SumContents ==
    { sql \in [PhaseSet -> {"absent", "a", "b"}] :
         /\ sql["migrate"] # "b"
         /\ sql["contract"] # "b"
         /\ sql["post"] # "b" }

\* sha256 and the %x formatting of its sum, free of collisions
Sha256(bytes) == <<"sha256", bytes>>

\* the phases whose path the range loop writes to the hasher, in its order
RECURSIVE WrittenPhases(_, _, _)
WrittenPhases(d, order, i) ==
    IF i > Len(order) THEN <<>>
    ELSE (IF d.sql[order[i]] # "absent" THEN <<order[i]>> ELSE <<>>)
         \o WrittenPhases(d, order, i + 1)

\* the bytes of hasher.Write([]byte(phase + ":" + *phaseData.SQLFilePath))
RECURSIVE WrittenBytes(_, _, _)
WrittenBytes(d, ps, i) ==
    IF i > Len(ps) THEN <<>>
    ELSE <<ps[i], ":", d.Directory, "/", ps[i], ".sql">>
         \o WrittenBytes(d, ps, i + 1)

\* CalculateChecksum(deployment) when the range over deployment.Phases
\* visits the phases in the given order
CalculateChecksum(d, order) ==
    Sha256(WrittenBytes(d, WrittenPhases(d, order, 1), 1))

\* the next invocation: the k-th one is on the k-th deployment
Checksum ==
    /\ Len(sums) < Len(sumDeps)
    /\ LET k == Len(sums) + 1
       IN \E order \in MapOrders(PhaseSet) :
             sums' = Append(sums,
                        [dep |-> k,
                         written |-> WrittenPhases(sumDeps[k], order, 1),
                         sum |-> CalculateChecksum(sumDeps[k], order)])
    /\ UNCHANGED sumDeps
    /\ UNCHANGED outsideSums

\* no checksum taken
SumsIdle ==
    /\ sumDeps = <<>>
    /\ sums = <<>>

(***************************************************************************)
(* runner.go: RunMigrations; ValidateOutstandingMigrations                 *)
(***************************************************************************)
\* bound on the pending migrations of a run
MaxPending == 3

\* the SQL phases of a migration
SQLPhases == {"expand", "migrate", "contract"}

\* content of a phase's SQL files: "comment" is the template CreateMigration
\* writes (comment lines only), "sql" a file of statements, "headed" the
\* template's first line kept with statements added below it
Migration(sql, script) == [sql |-> sql, script |-> script]

MigrationShapes ==
    { Migration([p \in SQLPhases |-> "comment"], TRUE),
      Migration([p \in SQLPhases |-> "comment"], FALSE),
      Migration([p \in SQLPhases |-> IF p = "migrate" THEN "comment" ELSE "sql"],
                TRUE),
      Migration([p \in SQLPhases |-> IF p = "migrate" THEN "sql" ELSE "comment"],
                FALSE),
      Migration([p \in SQLPhases |-> IF p = "expand" THEN "headed" ELSE "comment"],
                FALSE) }

\* HasNonEmptyExpandSQL, HasNonEmptyMigrateSQL, HasNonEmptyContractSQL:
\* content that does not start with the template's first line and has a line
\* that is neither blank nor a comment
HasNonEmptyPhaseSQL(m, p) == m.sql[p] = "sql"

\* ValidateOutstandingMigrations(pending) returns nil
ValidateOutstandingMigrations(pending) ==
    Cardinality({k \in DOMAIN pending :
                    \E p \in SQLPhases : HasNonEmptyPhaseSQL(pending[k], p)}) <= 1

\* what applyMigrationWithPhases does for pending migration k when nothing
\* fails: per phase the script, then the SQL files with statements; then
\* the post script and RecordMigration
RECURSIVE PhaseEffects(_, _, _)
PhaseEffects(m, k, order) ==
    IF order = <<>> THEN <<>>
    ELSE (IF m.script
             THEN <<[kind |-> "script", mig |-> k, phase |-> Head(order)]>>
             ELSE <<>>)
         \o (IF Head(order) # "post"
                   /\ HasNonEmptySQL([Content |-> m.sql[Head(order)]])
                THEN <<[kind |-> "sql", mig |-> k, phase |-> Head(order)]>>
                ELSE <<>>)
         \o PhaseEffects(m, k, Tail(order))

MigrationEffects(m, k) ==
    PhaseEffects(m, k, phaseOrder)
    \o <<[kind |-> "record", mig |-> k, phase |-> "-"]>>

DumpEffect == [kind |-> "dump", mig |-> 0, phase |-> "-"]

NoRun == [pc |-> "idle", i |-> 1, err |-> "none", events |-> <<>>]

\* RunMigrations, steps 1 to 4 and the test for no pending migrations
RunnerValidate ==
    /\ runner.pc = "idle"
    /\ runner' =
          IF ~ValidateOutstandingMigrations(runnerPending)
             THEN [runner EXCEPT !.pc = "done", !.err = "validation"]
          ELSE IF Len(runnerPending) = 0
             THEN [runner EXCEPT !.pc = "done", !.err = "nil"]
          ELSE [runner EXCEPT !.pc = "dump"]
    /\ UNCHANGED runnerPending
    /\ UNCHANGED outsideRunner

\* step 5: DumpSchema before the migrations
DumpSchemaBefore ==
    /\ runner.pc = "dump"
    /\ \E ok \in BOOLEAN :
          runner' = IF ok THEN [runner EXCEPT !.pc = "apply",
                                              !.events = Append(@, DumpEffect)]
                          ELSE [runner EXCEPT !.pc = "done", !.err = "error",
                                              !.events = Append(@, DumpEffect)]
    /\ UNCHANGED runnerPending
    /\ UNCHANGED outsideRunner

\* step 6, one iteration: applyMigrationWithPhases, of which the first n
\* effects succeed
ApplyMigration ==
    /\ runner.pc = "apply"
    /\ runner.i <= Len(runnerPending)
    /\ LET es == MigrationEffects(runnerPending[runner.i], runner.i)
       IN \E n \in 0..Len(es) :
             runner' =
                IF n = Len(es)
                   THEN [runner EXCEPT !.i = @ + 1, !.events = @ \o es]
                   ELSE [runner EXCEPT !.pc = "done", !.err = "error",
                                       !.events = @ \o SubSeq(es, 1, n + 1)]
    /\ UNCHANGED runnerPending
    /\ UNCHANGED outsideRunner

\* step 7: DumpSchema after the migrations, generateSchemaDiff
DumpSchemaAfter ==
    /\ runner.pc = "apply"
    /\ runner.i > Len(runnerPending)
    /\ \E ok \in BOOLEAN :
          runner' = [runner EXCEPT !.pc = "done",
                                   !.err = IF ok THEN "nil" ELSE "error",
                                   !.events = Append(@, DumpEffect)]
    /\ UNCHANGED runnerPending
    /\ UNCHANGED outsideRunner

\* no MigrationRunner run
RunnerIdle ==
    /\ runnerPending = <<>>
    /\ runner = NoRun

(***************************************************************************)
(* plan.go: BuildPlan and Plan.Execute, two CLI invocations at once        *)
(***************************************************************************)
Runners == {"A", "B"}

\* a table without a primary key
NoPrimaryKey(table, id) == TRUE

\* setup_schema.sql: id VARCHAR(255) PRIMARY KEY, so an INSERT of an ID that
\* has a row fails
PrimaryKeyOK(table, id) == \A k \in DOMAIN table : table[k] # id

NoRacer ==
    [pc |-> "idle", tasks |-> <<>>, idx |-> 1, completed |-> {},
     queue |-> {}, recorded |-> {}, err |-> "none"]

\* BuildPlan of run r, and Execute's return for a plan without tasks
RaceBuildPlan(r) ==
    /\ racers[r].pc = "idle"
    /\ \E order \in MapOrders(DOMAIN dirs) :
          LET ts == PlanTasks(LoadDeployments(order),
                              {appliedRows[k] : k \in DOMAIN appliedRows})
          IN racers' = [racers EXCEPT
                           ![r].tasks = ts,
                           ![r].pc = IF ts = <<>> THEN "done" ELSE "loop",
                           ![r].err = IF ts = <<>> THEN "nil" ELSE "none"]
    /\ UNCHANGED appliedRows
    /\ UNCHANGED outsideRuns

\* one iteration of run r's loop over p.Tasks
RaceExecuteTask(r) ==
    /\ racers[r].pc = "loop"
    /\ LET me == racers[r]
           d == me.tasks[me.idx].Deployment
       IN \E ok \in BOOLEAN :
             racers' =
                IF ~ok
                   THEN [racers EXCEPT ![r].pc = "done", ![r].err = "error"]
                ELSE IF me.idx < Len(me.tasks)
                   THEN [racers EXCEPT ![r].idx = @ + 1,
                                       ![r].completed = @ \cup {d}]
                ELSE [racers EXCEPT ![r].idx = @ + 1,
                                    ![r].completed = @ \cup {d},
                                    ![r].queue = me.completed \cup {d},
                                    ![r].pc = "record"]
    /\ UNCHANGED appliedRows
    /\ UNCHANGED outsideRuns

\* one iteration of run r's recording loop, and Execute's return after it
RaceRecord(r) ==
    /\ racers[r].pc = "record"
    /\ \E id \in racers[r].queue, dbOK \in BOOLEAN :
          IF dbOK /\ PrimaryKeyOK(appliedRows, id)
             THEN /\ appliedRows' = Append(appliedRows, id)
                  /\ racers' =
                        [racers EXCEPT
                            ![r].queue = @ \ {id},
                            ![r].recorded = @ \cup {id},
                            ![r].pc = IF racers[r].queue = {id}
                                         THEN "done" ELSE "record",
                            ![r].err = IF racers[r].queue = {id}
                                          THEN "nil" ELSE "none"]
             ELSE /\ racers' = [racers EXCEPT ![r].pc = "done",
                                              ![r].err = "error"]
                  /\ UNCHANGED appliedRows
    /\ UNCHANGED outsideRuns

\* no concurrent runs
RunsIdle ==
    /\ racers = [r \in Runners |-> NoRacer]
    /\ appliedRows = <<>>

(***************************************************************************)
(* plan.go and runner.go over one deployments directory                    *)
(***************************************************************************)
\* bound on the directories both executors are run over
MaxBoth == 2

\* the directories that mean the same files to LoadDeployments and to
\* LoadMigrations: no post.sql, every script executable, and a script in
\* every phase or in none
BothShapes ==
    {d \in DirShapes :
        /\ d["post"].sql = "absent"
        /\ \/ \A p \in PhaseSet : d[p].sh = "exec"
           \/ \A p \in PhaseSet : d[p].sh = "absent"}

\* loadMigration of a deployment directory
AsMigration(d) ==
    Migration([p \in SQLPhases |-> d[p].sql], d["expand"].sh = "exec")

\* runner.go:61, isHead := i == len(status.Pending)-1
RunnerIsHead(k) == k = Len(runnerPending)

(***************************************************************************)
(* config.go: LoadMigrationConfig, mergeConfigs                            *)
(***************************************************************************)
ConfigPhases == {"expand", "migrate", "contract", "post"}

\* a []string field of MigrationConfig: nil, or a slice of commands
NilList == [defined |-> FALSE, cmds |-> <<>>]

List(cmds) == [defined |-> TRUE, cmds |-> cmds]

\* a *MigrationConfig: nil when the directory has no zdd.yaml
NilConfig == [present |-> FALSE, lists |-> [p \in ConfigPhases |-> NilList]]

Config(lists) == [present |-> TRUE, lists |-> lists]

\* the configs a zdd.yaml in directory `who` can parse to: every phase is
\* left out, given as an empty list, or given one command
ConfigsOf(who) ==
    {NilConfig} \cup
    {Config(l) : l \in [ConfigPhases -> {NilList, List(<<>>), List(<<who>>)}]}

\* a mergeConfigs that takes the migration's list only when it has commands
mergeConfigsByLength(defaultConfig, migrationConfig) ==
    IF ~defaultConfig.present /\ ~migrationConfig.present
       THEN Config([p \in ConfigPhases |-> NilList])
    ELSE IF ~defaultConfig.present THEN migrationConfig
    ELSE IF ~migrationConfig.present THEN defaultConfig
    ELSE Config([p \in ConfigPhases |->
                    IF Len(migrationConfig.lists[p].cmds) > 0
                       THEN migrationConfig.lists[p]
                    ELSE IF Len(defaultConfig.lists[p].cmds) > 0
                       THEN defaultConfig.lists[p]
                    ELSE NilList])

mergeConfigs(defaultConfig, migrationConfig) ==
    IF ~defaultConfig.present /\ ~migrationConfig.present
       THEN Config([p \in ConfigPhases |-> NilList])
    ELSE IF ~defaultConfig.present THEN migrationConfig
    ELSE IF ~migrationConfig.present THEN defaultConfig
    ELSE Config([p \in ConfigPhases |->
                    IF migrationConfig.lists[p].defined
                       THEN migrationConfig.lists[p]
                    ELSE IF defaultConfig.lists[p].defined
                       THEN defaultConfig.lists[p]
                    ELSE NilList])

NotMerged == [present |-> FALSE, lists |-> <<>>]

\* LoadMigrationConfig, both files read without an error
LoadMigrationConfig ==
    /\ merged = NotMerged
    /\ merged' = mergeConfigs(configs.defaultConfig, configs.migrationConfig)
    /\ UNCHANGED configs
    /\ UNCHANGED outsideConfig

\* no LoadMigrationConfig call
MergeIdle ==
    /\ configs = [defaultConfig |-> NilConfig, migrationConfig |-> NilConfig]
    /\ merged = NotMerged

(***************************************************************************)
(* Specifications                                                          *)
(***************************************************************************)
RunInit ==
    /\ ledger = {}
    /\ pc = "idle"
    /\ tasks = <<>>
    /\ alreadyDeployed = {}
    /\ lastPendingID = NoID
    /\ idx = 1
    /\ startedDeployments = {}
    /\ completedDeployments = {}
    /\ recordQueue = {}
    /\ err = "none"
    /\ events = <<>>
    /\ ledgerQueries = 0

Init ==
    /\ \E S \in SUBSET IDs :
          /\ dirs \in [S -> DirShapes]
          /\ unlistable \in SUBSET S
          /\ root \in IF S = {} THEN {"missing", "present"} ELSE {"present"}
    /\ RunInit
    /\ TxIdle
    /\ MergeIdle
    /\ FilesIdle
    /\ SumsIdle
    /\ RunnerIdle
    /\ RunsIdle
    /\ SqlIdle
    /\ CompareIdle
    /\ CreateIdle

Next ==
    \/ BuildPlan
    \/ ExecuteBegin
    \/ ExecuteTask
    \/ LoopEnd
    \/ RecordStep
    \/ RecordEnd
    \/ NextRun

Spec == Init /\ [][Next]_vars

\* one deployment directory with every combination of phase files
InitLoad ==
    /\ dirs \in [{1} -> AllDirs]
    /\ unlistable = {}
    /\ root = "present"
    /\ RunInit
    /\ TxIdle
    /\ MergeIdle
    /\ FilesIdle
    /\ SumsIdle
    /\ RunnerIdle
    /\ RunsIdle
    /\ SqlIdle
    /\ CompareIdle
    /\ CreateIdle

NextLoad == BuildPlan

SpecLoad == InitLoad /\ [][NextLoad]_vars

\* CompareDeployments on every pair of bounded arguments
InitCompare ==
    /\ local \in LocalInputs
    /\ applied \in AppliedInputs
    /\ status = NoStatus
    /\ dirs = <<>>
    /\ unlistable = {}
    /\ root = "present"
    /\ RunInit
    /\ TxIdle
    /\ MergeIdle
    /\ FilesIdle
    /\ SumsIdle
    /\ RunnerIdle
    /\ RunsIdle
    /\ SqlIdle
    /\ CreateIdle

NextCompare == Compare

SpecCompare == InitCompare /\ [][NextCompare]_vars

\* successive CreateDeployment calls on one root
InitCreate ==
    /\ \E r \in InitRoots : root = r.root /\ listing = r.listing
    /\ calls = <<>>
    /\ procs = [p \in Procs |-> NoProc]
    /\ loaded = NoLoad
    /\ dirs = <<>>
    /\ unlistable = {}
    /\ RunInit
    /\ TxIdle
    /\ MergeIdle
    /\ FilesIdle
    /\ SumsIdle
    /\ RunnerIdle
    /\ RunsIdle
    /\ SqlIdle
    /\ CompareIdle

NextCreate == CreateDeployment

SpecCreate == InitCreate /\ [][NextCreate]_vars

\* two CreateDeployment invocations whose steps interleave
InitRace ==
    /\ \E r \in InitRoots : root = r.root /\ listing = r.listing
    /\ calls = <<>>
    /\ procs \in [Procs -> [pc : {"start"}, raw : RawNames, id : {<<>>}]]
    /\ loaded = NoLoad
    /\ dirs = <<>>
    /\ unlistable = {}
    /\ RunInit
    /\ TxIdle
    /\ MergeIdle
    /\ FilesIdle
    /\ SumsIdle
    /\ RunnerIdle
    /\ RunsIdle
    /\ SqlIdle
    /\ CompareIdle

NextRace ==
    \/ \E p \in Procs : GetID(p)
    \/ \E p \in Procs : Mkdir(p)
    \/ \E p \in Procs : WriteFiles(p)

SpecRace == InitRace /\ [][NextRace]_vars

\* LoadDeployments on every content of the root
InitListing ==
    /\ root = "present"
    /\ listing \in SUBSET RootEntries
    /\ calls = <<>>
    /\ procs = [p \in Procs |-> NoProc]
    /\ loaded = NoLoad
    /\ dirs = <<>>
    /\ unlistable = {}
    /\ RunInit
    /\ TxIdle
    /\ MergeIdle
    /\ FilesIdle
    /\ SumsIdle
    /\ RunnerIdle
    /\ RunsIdle
    /\ SqlIdle
    /\ CompareIdle

NextListing == Load

SpecListing == InitListing /\ [][NextListing]_vars

\* the SQL of one run, for every set of SQL files
InitSQL ==
    /\ sqlFiles \in SubLists(AllSQLFiles)
    /\ fileIdx = 1
    /\ committed = {}
    /\ sqlErr = "none"
    /\ dirs = <<>>
    /\ unlistable = {}
    /\ root = "present"
    /\ RunInit
    /\ TxIdle
    /\ MergeIdle
    /\ FilesIdle
    /\ SumsIdle
    /\ RunnerIdle
    /\ RunsIdle
    /\ CompareIdle
    /\ CreateIdle

NextSQL == ApplySQLFile

SpecSQL == InitSQL /\ [][NextSQL]_vars

\* one ExecuteSQLInTransaction call, for every list of statements
InitTx ==
    /\ txArgs \in TxArgs
    /\ tx = NoTx
    /\ MergeIdle
    /\ dirs = <<>>
    /\ unlistable = {}
    /\ root = "present"
    /\ RunInit
    /\ FilesIdle
    /\ SumsIdle
    /\ RunnerIdle
    /\ RunsIdle
    /\ SqlIdle
    /\ CompareIdle
    /\ CreateIdle

NextTx == TxBegin \/ TxExec \/ TxCommit

SpecTx == InitTx /\ [][NextTx]_vars

\* one deployment directory and the root's plain files, every combination
InitFiles ==
    /\ rootFiles \in SUBSET RootFiles
    /\ dirEntries \in SUBSET DeploymentFiles
    /\ phases = NotLoaded
    /\ migration = NotLoaded
    /\ dirs = <<>>
    /\ unlistable = {}
    /\ root = "present"
    /\ RunInit
    /\ TxIdle
    /\ MergeIdle
    /\ SumsIdle
    /\ RunnerIdle
    /\ RunsIdle
    /\ SqlIdle
    /\ CompareIdle
    /\ CreateIdle

NextFiles == LoadFiles \/ LoadMigration

SpecFiles == InitFiles /\ [][NextFiles]_vars

\* two deployments, or one deployment directory at two times, with every
\* content of the SQL files
InitSums ==
    /\ sumDeps \in {<<SumDeployment(1, a), SumDeployment(id, b)>> :
                       a \in SumContents, b \in SumContents, id \in 1..2}
    /\ sums = <<>>
    /\ dirs = <<>>
    /\ unlistable = {}
    /\ root = "present"
    /\ RunInit
    /\ TxIdle
    /\ MergeIdle
    /\ FilesIdle
    /\ RunnerIdle
    /\ RunsIdle
    /\ SqlIdle
    /\ CompareIdle
    /\ CreateIdle

NextSums == Checksum

SpecSums == InitSums /\ [][NextSums]_vars

\* one MigrationRunner run, for every list of pending migrations
InitRunner ==
    /\ runnerPending \in UNION {[1..n -> MigrationShapes] : n \in 0..MaxPending}
    /\ runner = NoRun
    /\ dirs = <<>>
    /\ unlistable = {}
    /\ root = "present"
    /\ RunInit
    /\ TxIdle
    /\ MergeIdle
    /\ FilesIdle
    /\ SumsIdle
    /\ RunsIdle
    /\ SqlIdle
    /\ CompareIdle
    /\ CreateIdle

NextRunner == RunnerValidate \/ DumpSchemaBefore \/ ApplyMigration \/ DumpSchemaAfter

SpecRunner == InitRunner /\ [][NextRunner]_vars

\* two runs over one root of up to two deployment directories with at most
\* three tasks each, and an empty ledger
InitRuns ==
    /\ \E S \in SUBSET (1..2) :
          dirs \in [S -> {d \in DirShapes :
                            Cardinality({p \in PhaseSet : d[p].sh = "exec"})
                            + Cardinality({p \in PhaseSet : d[p].sql # "absent"})
                            <= 3}]
    /\ racers = [r \in Runners |-> NoRacer]
    /\ appliedRows = <<>>
    /\ unlistable = {}
    /\ root = "present"
    /\ RunInit
    /\ TxIdle
    /\ MergeIdle
    /\ FilesIdle
    /\ SumsIdle
    /\ RunnerIdle
    /\ SqlIdle
    /\ CompareIdle
    /\ CreateIdle

NextRuns ==
    \/ \E r \in Runners : RaceBuildPlan(r)
    \/ \E r \in Runners : RaceExecuteTask(r)
    \/ \E r \in Runners : RaceRecord(r)

SpecRuns == InitRuns /\ [][NextRuns]_vars

\* a Plan a caller of the package built by hand: up to three tasks, each of
\* deployment 1 or 2 or without a Deployment
HandBuiltTasks ==
    {Task(type, "migrate", id) :
        type \in {"script", "sql"}, id \in {NilDeployment, 1, 2}}

InitHandBuilt ==
    /\ dirs = [id \in {1, 2} |-> EmptyDir]
    /\ unlistable = {}
    /\ root = "present"
    /\ \E n \in 1..3 : tasks \in [1..n -> HandBuiltTasks]
    /\ alreadyDeployed \in SUBSET {1}
    /\ ledger = alreadyDeployed
    /\ pc = "built"
    /\ lastPendingID = NoID
    /\ idx = 1
    /\ startedDeployments = {}
    /\ completedDeployments = {}
    /\ recordQueue = {}
    /\ err = "none"
    /\ events = <<>>
    /\ ledgerQueries = 0
    /\ TxIdle
    /\ MergeIdle
    /\ FilesIdle
    /\ SumsIdle
    /\ RunnerIdle
    /\ RunsIdle
    /\ SqlIdle
    /\ CompareIdle
    /\ CreateIdle

NextHandBuilt ==
    \/ ExecuteBegin
    \/ ExecuteTask
    \/ LoopEnd
    \/ RecordStep
    \/ RecordEnd

SpecHandBuilt == InitHandBuilt /\ [][NextHandBuilt]_vars

\* both executors over the same deployments 1..n and an empty ledger
InitBoth ==
    /\ \E n \in 0..MaxBoth :
          /\ dirs \in [1..n -> BothShapes]
          /\ runnerPending = [k \in 1..n |-> AsMigration(dirs[k])]
    /\ runner = NoRun
    /\ unlistable = {}
    /\ root = "present"
    /\ RunInit
    /\ TxIdle
    /\ MergeIdle
    /\ FilesIdle
    /\ SumsIdle
    /\ RunsIdle
    /\ SqlIdle
    /\ CompareIdle
    /\ CreateIdle

NextBoth ==
    \/ BuildPlan
    \/ ExecuteBegin
    \/ ExecuteTask
    \/ LoopEnd
    \/ RecordStep
    \/ RecordEnd
    \/ RunnerValidate
    \/ DumpSchemaBefore
    \/ ApplyMigration
    \/ DumpSchemaAfter

SpecBoth == InitBoth /\ [][NextBoth]_vars

\* every pair of a root zdd.yaml and a migration zdd.yaml, either may be
\* missing
InitMerge ==
    /\ configs \in [defaultConfig : ConfigsOf("default"),
                    migrationConfig : ConfigsOf("migration")]
    /\ merged = NotMerged
    /\ dirs = <<>>
    /\ unlistable = {}
    /\ root = "present"
    /\ RunInit
    /\ TxIdle
    /\ FilesIdle
    /\ SumsIdle
    /\ RunnerIdle
    /\ RunsIdle
    /\ SqlIdle
    /\ CompareIdle
    /\ CreateIdle

NextMerge == LoadMigrationConfig

SpecMerge == InitMerge /\ [][NextMerge]_vars

(***************************************************************************)
(* Vocabulary of the properties                                            *)
(***************************************************************************)
EventIdx == 1..Len(events)

TaskIdx == 1..Len(tasks)

IsTaskEvent(e) == e.kind = "task"

\* the deployments that own a task of the plan
Owners == {tasks[i].Deployment : i \in TaskIdx}

\* local deployments without a ledger row when the plan was built
PendingAtPlan == DOMAIN dirs \ alreadyDeployed

\* rows this run has written
WrittenThisRun == ledger \ alreadyDeployed

MaxOf(S) == CHOOSE m \in S : \A x \in S : x <= m

\* event e is the execution of plan task t
Runs(e, t) ==
    /\ IsTaskEvent(e)
    /\ e.dep = t.Deployment
    /\ e.phase = t.Phase
    /\ e.type = t.TaskType

LastTaskOf(d) == tasks[MaxOf({i \in TaskIdx : tasks[i].Deployment = d})]

PhaseRank(p) ==
    CASE p = "expand" -> 1 [] p = "migrate" -> 2 [] p = "contract" -> 3
      [] p = "post" -> 4

(***************************************************************************)
(* Plan.Execute: recording                                                 *)
(***************************************************************************)
\* C1: RecordDeployment(d) is called once, immediately after d's last task
\* succeeds: the event that follows the success of d's last task is the
\* recording of d, so it precedes every task of a later deployment, and no
\* deployment is recorded twice in a run.
C1_RecordedRightAfterLastTask ==
    /\ \A j \in EventIdx :
          (/\ IsTaskEvent(events[j])
           /\ events[j].ok
           /\ Runs(events[j], LastTaskOf(events[j].dep))
           /\ j < Len(events))
          => (events[j + 1].kind = "record" /\ events[j + 1].dep = events[j].dep)
    /\ \A i, j \in EventIdx :
          (/\ events[i].kind = "record" /\ events[j].kind = "record"
           /\ events[i].dep = events[j].dep)
          => i = j

\* C2: when Execute returns after a task of deployment k failed, every
\* deployment of the plan ordered before k has its ledger row.
C2_EarlierSuccessRecorded ==
    (pc = "done")
    => \A j \in EventIdx :
          (IsTaskEvent(events[j]) /\ ~events[j].ok)
          => \A d \in Owners : d < events[j].dep => d \in ledger

\* C3: a failed script or SQL task is the last call Execute makes: no later
\* task runs, Execute has returned a non-nil error, and the run has written
\* no ledger row for the failing deployment or a later one.
C3_FailFast ==
    \A j \in EventIdx :
        (IsTaskEvent(events[j]) /\ ~events[j].ok)
        => /\ j = Len(events)
           /\ pc = "done"
           /\ err = "error"
           /\ \A d \in WrittenThisRun : d < events[j].dep

C3_Witness ==
    /\ pc = "done"
    /\ err = "error"
    /\ Len(events) >= 2
    /\ IsTaskEvent(events[Len(events)])
    /\ ~events[Len(events)].ok
    /\ events[Len(events)].dep # events[1].dep
    /\ idx < Len(tasks)

\* C4: every ledger row written by the run belongs to a deployment each of
\* whose plan tasks was executed successfully before the row was written.
C4_RowOnlyAfterAllTasks ==
    (pc # "idle")
    => \A d \in WrittenThisRun :
          \E r \in EventIdx :
              /\ events[r].kind = "record" /\ events[r].dep = d /\ events[r].ok
              /\ \A i \in TaskIdx :
                    tasks[i].Deployment = d
                    => \E j \in 1..(r - 1) : Runs(events[j], tasks[i]) /\ events[j].ok

C4_Witness ==
    /\ pc = "done"
    /\ \E d \in WrittenThisRun :
          Cardinality({i \in TaskIdx : tasks[i].Deployment = d}) >= 3

(***************************************************************************)
(* Deployment.Tasks and BuildPlan                                          *)
(***************************************************************************)
\* C5: the tasks of a deployment come in the phase order expand, migrate,
\* contract, post; inside a phase the script precedes the SQL (so a phase
\* has at most one of each); the post phase never yields a SQL task.
C5_TaskOrder ==
    (pc = "built")
    => /\ \A i, j \in TaskIdx :
             (i < j /\ tasks[i].Deployment = tasks[j].Deployment)
             => \/ PhaseRank(tasks[i].Phase) < PhaseRank(tasks[j].Phase)
                \/ /\ tasks[i].Phase = tasks[j].Phase
                   /\ tasks[i].TaskType = "script"
                   /\ tasks[j].TaskType = "sql"
       /\ \A i \in TaskIdx : tasks[i].Phase = "post" => tasks[i].TaskType = "script"

C5_Witness ==
    /\ pc = "built"
    /\ Len(tasks) = 7
    /\ \A p \in PhaseSet : dirs[1][p].sh = "exec" /\ dirs[1][p].sql = "sql"

\* C6: the plan lists the pending deployments in ascending ID order, each
\* deployment's tasks in one block: no task of a higher ID precedes a task
\* of a lower ID.
C6_PlanAscending ==
    \A i, j \in TaskIdx : i < j => tasks[i].Deployment <= tasks[j].Deployment

C6_Witness ==
    /\ pc = "built"
    /\ Cardinality(Owners) = 3
    /\ \E i \in TaskIdx : i > 1 /\ i < Len(tasks) /\ tasks[i].Deployment = 2

\* C7: a script runs with ZDD_IS_HEAD=true only when its deployment is the
\* last pending deployment, the pending deployment with the highest ID.
C7_HeadIsLastPending ==
    \A j \in EventIdx :
        (IsTaskEvent(events[j]) /\ events[j].type = "script" /\ events[j].isHead)
        => events[j].dep = MaxOf(PendingAtPlan)

\* C8: once a deployment has a ledger row, no plan built afterwards holds a
\* task of it, and no task of it is run and no RecordDeployment call is made
\* for it again.
C8_AtMostOnce ==
    [][ /\ (pc = "idle" /\ pc' = "built")
           => \A i \in 1..Len(tasks') : tasks'[i].Deployment \notin ledger
        /\ (Len(events') > Len(events))
           => events'[Len(events')].dep \notin ledger ]_vars

C8_Witness ==
    /\ alreadyDeployed # {}
    /\ pc = "done"
    /\ err = "nil"
    /\ WrittenThisRun # {}
    /\ \E j \in EventIdx : IsTaskEvent(events[j])

\* C9: a run in which every task and every RecordDeployment call succeeds
\* ends with every deployment that was pending at plan time in the ledger.
C9_AllPendingRecorded ==
    (pc = "done" /\ err = "nil") => PendingAtPlan \subseteq ledger

\* C10: a phase SQL file holding only comments, blank lines or whitespace
\* yields no SQL task: every SQL task of a plan comes from a file with a
\* statement in it.
C10_CommentOnlySQLSkipped ==
    \A i \in TaskIdx :
        tasks[i].TaskType = "sql"
        => dirs[tasks[i].Deployment][tasks[i].Phase].sql = "sql"

(***************************************************************************)
(* CompareDeployments                                                      *)
(***************************************************************************)
LedgerIDs == {applied[i].ID : i \in 1..Len(applied)}

LocalIDs == {local[i].ID : i \in 1..Len(local)}

RowOf(id) == applied[CHOOSE i \in 1..Len(applied) : applied[i].ID = id]

\* C11: CompareDeployments(local, ledger) returns as Applied the local
\* deployments whose ID is in the ledger, each with the AppliedAt of its
\* ledger row, as Pending the local deployments whose ID is not in the
\* ledger, and as Missing one deployment (ID and Name of the row) per ledger
\* row whose ID is not local; Applied and Pending partition local and keep
\* its order, Missing keeps the order of the ledger.
C11_CompareClassifies ==
    status.set
    => LET InLedger(d) == d.ID \in LedgerIDs
           NotInLedger(d) == d.ID \notin LedgerIDs
           NotLocal(r) == r.ID \notin LocalIDs
           wantApplied == SelectSeq(local, InLedger)
           wantMissing == SelectSeq(applied, NotLocal)
       IN /\ Len(status.Applied) = Len(wantApplied)
          /\ \A k \in 1..Len(wantApplied) :
                status.Applied[k] =
                    [wantApplied[k] EXCEPT
                        !.AppliedAt = RowOf(wantApplied[k].ID).AppliedAt]
          /\ status.Pending = SelectSeq(local, NotInLedger)
          /\ Len(status.Missing) = Len(wantMissing)
          /\ \A k \in 1..Len(wantMissing) :
                /\ status.Missing[k].ID = wantMissing[k].ID
                /\ status.Missing[k].Name = wantMissing[k].Name
          /\ Len(status.Applied) + Len(status.Pending) = Len(local)

C11_Witness ==
    /\ status.set
    /\ Len(local) >= 2
    /\ local[1].ID > local[2].ID
    /\ status.Applied # <<>>
    /\ status.Pending # <<>>
    /\ status.Missing # <<>>

(***************************************************************************)
(* CreateDeployment                                                        *)
(***************************************************************************)
OkCalls == {k \in 1..Len(calls) : calls[k].ok}

IsSixDigits(id) == Len(id) = IDWidth /\ \A i \in 1..Len(id) : id[i] \in DigitSet

\* the IDs LoadDeployments would have returned before call k
ExistingBefore(k) ==
    {Atoi(MatchID(n)) : n \in MatchingDirs(calls[k].before)}

\* C12: CreateDeployment returns max(existing deployment IDs)+1 as a 6-digit
\* zero-padded string, and 000001 when the root is missing or holds no
\* deployment directory.
C12_NextIDIsMaxPlusOne ==
    \A k \in OkCalls :
        IF calls[k].rootBefore = "missing" \/ ExistingBefore(k) = {}
           THEN calls[k].ID = <<"0", "0", "0", "0", "0", "1">>
           ELSE /\ IsSixDigits(calls[k].ID)
                /\ Atoi(calls[k].ID) = MaxOf(ExistingBefore(k)) + 1

\* C13: the IDs returned by successful CreateDeployment calls on one root
\* are pairwise distinct, 6 digits wide, and strictly increasing in creation
\* order under string comparison.
C13_IDsDistinctFixedWidthIncreasing ==
    /\ \A k \in OkCalls : IsSixDigits(calls[k].ID)
    /\ \A i, j \in OkCalls :
          i < j => (calls[i].ID # calls[j].ID /\ StrLess(calls[i].ID, calls[j].ID))

\* C14: two CreateDeployment invocations on one root whose steps interleave
\* never return the same ID and never write into the same deployment
\* directory.
C14_ConflictFree ==
    \A p, q \in Procs :
        p # q
        => /\ (procs[p].pc = "returned" /\ procs[q].pc = "returned")
              => procs[p].id # procs[q].id
           /\ (procs[p].pc \in {"made", "returned"}
               /\ procs[q].pc \in {"made", "returned"})
              => DirName(procs[p].id, Sanitize(procs[p].raw))
                 # DirName(procs[q].id, Sanitize(procs[q].raw))

\* the name CreateDeployment is to derive from raw: lower case, "_" for " "
IsSanitized(name, raw) ==
    /\ Len(name) = Len(raw)
    /\ \A i \in 1..Len(raw) :
          /\ raw[i] = " " => name[i] = "_"
          /\ raw[i] \in {"A", "a"} => name[i] = "a"
          /\ raw[i] \in {"B", "b"} => name[i] = "b"

\* what LoadDeployments returns now beyond what it returned before call 1
LoadedSinceFirstCall ==
    LET old == LoadedDeployments(calls[1].rootBefore, calls[1].before)
        IsNew(d) == \A i \in 1..Len(old) : old[i] # d
    IN SelectSeq(LoadedDeployments(root, listing), IsNew)

\* C15: after a sequence of successful CreateDeployment calls on a root,
\* LoadDeployments returns exactly one (new) deployment per call, in
\* creation order, each with the ID and the sanitized Name the call returned
\* and with the Directory {ID}_{Name}.
C15_CreateLoadRoundTrip ==
    (calls # <<>> /\ OkCalls = 1..Len(calls))
    => /\ Len(LoadedSinceFirstCall) = Len(calls)
       /\ \A k \in 1..Len(calls) :
             /\ LoadedSinceFirstCall[k].ID = calls[k].ID
             /\ LoadedSinceFirstCall[k].Name = calls[k].Name
             /\ IsSanitized(calls[k].Name, calls[k].raw)
             /\ LoadedSinceFirstCall[k].Directory
                = calls[k].ID \o <<"_">> \o calls[k].Name
             /\ calls[k].Directory = LoadedSinceFirstCall[k].Directory

(***************************************************************************)
(* LoadDeployments                                                         *)
(***************************************************************************)
\* the immediate subdirectories named {6 digits}_{name}
DeploymentSubdirs ==
    {e.name : e \in {x \in listing : x.isDir /\ MatchesDirPattern(x.name)}}

\* C16: LoadDeployments returns the deployments in strictly ascending ID
\* order (no ID twice), exactly one for each immediate subdirectory named
\* {6 digits}_{name}, and none for a plain file or for a subdirectory that
\* does not match.
C16_OnePerMatchingSubdir ==
    loaded.set
    => LET ds == loaded.deployments
       IN /\ \A i, j \in 1..Len(ds) : i < j => StrLess(ds[i].ID, ds[j].ID)
          /\ \A n \in DeploymentSubdirs : \E i \in 1..Len(ds) : ds[i].Directory = n
          /\ \A i \in 1..Len(ds) : ds[i].Directory \in DeploymentSubdirs
          /\ Len(ds) = Cardinality(DeploymentSubdirs)

\* C17: LoadDeployments returns an empty list and no error when the root
\* does not exist, so the plan is built, empty; when the root exists and a
\* deployment directory cannot be listed it returns an error and no list,
\* and BuildPlan returns that error without querying the ledger, leaving no
\* plan, and nothing is executed or recorded.
C17_LoadErrors ==
    (pc # "idle")
    => /\ root = "missing"
          => (err # "error" /\ ledgerQueries = 1 /\ tasks = <<>>)
       /\ (root = "present" /\ unlistable # {})
          => /\ pc = "done"
             /\ err = "error"
             /\ ledgerQueries = 0
             /\ tasks = <<>>
             /\ events = <<>>

C17_Witness ==
    /\ pc = "done"
    /\ err = "error"
    /\ unlistable # {}
    /\ \E d \in DOMAIN dirs \ unlistable : Tasks(loadDeployment(d)) # <<>>

\* C18: Plan.Execute on a plan with an empty task list is a no-op: no
\* script is spawned, neither ExecuteSQLInTransaction nor RecordDeployment
\* is called, the ledger stays as it was when the plan was built, and nil is
\* returned.
C18_EmptyPlanNoOp ==
    (pc # "idle" /\ ledgerQueries = 1 /\ tasks = <<>>)
    => /\ pc \in {"built", "done"}
       /\ events = <<>>
       /\ ledger = alreadyDeployed
       /\ pc = "done" => err = "nil"

C18_Witness ==
    /\ pc = "done"
    /\ ledgerQueries = 1
    /\ tasks = <<>>
    /\ err = "nil"
    /\ DOMAIN dirs \ ledger # {}

(***************************************************************************)
(* Plan.ExecuteScript                                                      *)
(***************************************************************************)
ScriptVariables ==
    {"ZDD_IS_HEAD", "ZDD_DEPLOYMENT_ID", "ZDD_DEPLOYMENT_NAME", "ZDD_PHASE",
     "ZDD_DEPLOYMENTS_PATH", "ZDD_DATABASE_URL"}

\* C19: every script a plan run executes receives the six ZDD_ variables;
\* ZDD_IS_HEAD is "true" or "false", ZDD_DEPLOYMENT_ID and
\* ZDD_DEPLOYMENT_NAME are those of the deployment owning the task,
\* ZDD_PHASE is the task's phase, and the working directory is the owning
\* deployment's directory.
C19_ScriptEnvironment ==
    \A j \in EventIdx :
        (IsTaskEvent(events[j]) /\ events[j].type = "script")
        => LET env == events[j].cmd.Env
               owner == tasks[j].Deployment
           IN /\ tasks[j].TaskType = "script"
              /\ ScriptVariables \subseteq DOMAIN env
              /\ env.ZDD_IS_HEAD \in {"true", "false"}
              /\ env.ZDD_DEPLOYMENT_ID = owner
              /\ env.ZDD_DEPLOYMENT_NAME = <<"name", owner>>
              /\ env.ZDD_PHASE = tasks[j].Phase
              /\ events[j].cmd.Dir = <<"deployments", owner, <<"name", owner>>>>

C19_Witness ==
    \E i, j \in EventIdx :
        /\ events[i].type = "script"
        /\ events[j].type = "script"
        /\ events[i].dep # events[j].dep
        /\ events[i].phase # events[j].phase
        /\ events[i].cmd.Env.ZDD_IS_HEAD = "false"
        /\ events[j].cmd.Env.ZDD_IS_HEAD = "true"

(***************************************************************************)
(* SQL atomicity                                                           *)
(***************************************************************************)
\* the files whose effects are (partly) committed
CommittedFiles == {e[1] : e \in committed}

SamePhase(f, g) == f.dep = g.dep /\ f.phase = g.phase

\* the earlier files with statements are committed in full
EarlierFilesCommitted ==
    \A k \in 1..(fileIdx - 1) :
        HasNonEmptySQL(sqlFiles[k]) => Effects(k, sqlFiles[k].stmts) \subseteq committed

\* C20 (as stated): when the SQL of a phase fails, no SQL effect of that
\* phase remains committed, the effects of its earlier numbered batch files
\* included, while the SQL effects of earlier phases and of earlier
\* deployments remain committed.
C20_PhaseAtomic ==
    (sqlErr = "error")
    => /\ \A k \in CommittedFiles : ~SamePhase(sqlFiles[k], sqlFiles[fileIdx])
       /\ \A k \in 1..(fileIdx - 1) :
             (HasNonEmptySQL(sqlFiles[k]) /\ ~SamePhase(sqlFiles[k], sqlFiles[fileIdx]))
             => Effects(k, sqlFiles[k].stmts) \subseteq committed

\* C20 (amended): each SQL file is atomic.  When a file fails, none of its
\* effects remains committed, while the effects of every earlier file stay
\* committed: the earlier numbered batch files of the same phase as well as
\* the files of earlier phases and earlier deployments.
C20_FileAtomic ==
    /\ (sqlErr = "error")
       => /\ fileIdx \notin CommittedFiles
          /\ EarlierFilesCommitted
    /\ \A k \in CommittedFiles : Effects(k, sqlFiles[k].stmts) \subseteq committed

C20_Witness ==
    /\ sqlErr = "error"
    /\ fileIdx > 1
    /\ sqlFiles[fileIdx].stmts > 1
    /\ SamePhase(sqlFiles[fileIdx - 1], sqlFiles[fileIdx])
    /\ (fileIdx - 1) \in CommittedFiles
    /\ \E k \in CommittedFiles : sqlFiles[k].dep # sqlFiles[fileIdx].dep

\* the statements of a call that are not blank, in the order passed
NonBlank(args) == SelectSeq([k \in DOMAIN args |-> k], LAMBDA k : args[k] # "blank")

Range(q) == {q[k] : k \in DOMAIN q}

\* C21: a call of ExecuteSQLInTransaction is all-or-nothing: nothing it did
\* is visible before it returns; when it returns nil every non-blank
\* statement was executed, in order, and all their effects are visible; when
\* it returns an error none of their effects is visible, and the statements
\* executed are a prefix of the non-blank ones that ends at the failing one.
C21_AllOrNothing ==
    /\ tx.pc # "returned" => tx.visible = {} /\ tx.err = "none"
    /\ tx.pc = "returned" =>
          \/ /\ tx.err = "nil"
             /\ tx.executed = NonBlank(txArgs)
             /\ tx.visible = Range(NonBlank(txArgs))
          \/ /\ tx.err = "error"
             /\ tx.visible = {}
             /\ Len(tx.executed) <= Len(NonBlank(txArgs))
             /\ tx.executed = SubSeq(NonBlank(txArgs), 1, Len(tx.executed))
             /\ \A k \in Range(tx.executed) : k <= tx.i

\* a call with a blank statement whose second executed statement failed while
\* a later statement was waiting
C21_Witness ==
    /\ tx.pc = "returned"
    /\ tx.err = "error"
    /\ "blank" \in Range(txArgs)
    /\ Len(tx.executed) = 2
    /\ Len(NonBlank(txArgs)) = 3

\* the files of the directory named {phase}.sql or {phase}.{n}.sql
PhaseSQLFiles(p) ==
    {e.name : e \in {f \in dirEntries : f.name.phase = p /\ f.name.ext = "sql"}}

\* n of {phase}.{n}.sql, 0 for {phase}.sql
Sequence(name) == IF name.num = <<>> THEN 0 ELSE Atoi(name.num)

\* the SQL files a loaded phase executes, in order
AttachedSQL(p) ==
    IF phases[p].SQLFilePath = NoFile THEN <<>> ELSE <<phases[p].SQLFilePath[2]>>

\* C22: after loading, every file named {phase}.sql or {phase}.{n}.sql of the
\* directory is attached to its phase, in ascending numeric order of n.
C22_NumberedFilesAttached ==
    phases # NotLoaded =>
       \A p \in {"expand", "migrate", "contract"} :
          /\ Range(AttachedSQL(p)) = PhaseSQLFiles(p)
          /\ \A i, j \in DOMAIN AttachedSQL(p) :
                i < j => Sequence(AttachedSQL(p)[i]) <= Sequence(AttachedSQL(p)[j])

\* the deployment's own {phase}.sh and the root-level {phase}.sh, when present
OwnScript(p) == {e \in dirEntries : e.name = FileName(p, <<>>, "sh")}

RootScript(p) == {e \in rootFiles : e.name = FileName(p, <<>>, "sh")}

\* own script when it exists, otherwise the root-level one when that exists
OwnElseRoot(p) ==
    IF OwnScript(p) # {} THEN Join("deployment", FileName(p, <<>>, "sh"))
    ELSE IF RootScript(p) # {} THEN Join("root", FileName(p, <<>>, "sh"))
    ELSE NoFile

DifferIn(d, e) == {p \in SQLPhases : d.sql[p] # e.sql[p]}

\* C25: two invocations of CalculateChecksum, on the same deployment or on
\* two deployments, return the same checksum when the expand, migrate and
\* contract content is identical, and different checksums when the content
\* of one of the three phases differs.
C25_ChecksumOfContent ==
    \A i, j \in DOMAIN sums :
       LET d == sumDeps[sums[i].dep]
           e == sumDeps[sums[j].dep]
       IN /\ DifferIn(d, e) = {} => sums[i].sum = sums[j].sum
          /\ Cardinality(DifferIn(d, e)) = 1 => sums[i].sum # sums[j].sum

\* C26: every invocation accumulates expand, migrate, contract in that order
\* and nothing of the post phase, and two deployments that differ only in
\* their post phase get the same checksum.
C26_FixedOrderWithoutPost ==
    /\ \A i \in DOMAIN sums :
          /\ "post" \notin Range(sums[i].written)
          /\ \A a, b \in DOMAIN sums[i].written :
                a < b => PhaseRank(sums[i].written[a]) < PhaseRank(sums[i].written[b])
    /\ \A i, j \in DOMAIN sums :
          LET d == sumDeps[sums[i].dep]
              e == sumDeps[sums[j].dep]
          IN (d.ID = e.ID /\ DifferIn(d, e) = {}) => sums[i].sum = sums[j].sum

\* the pending migrations with an SQL file that has a line which is neither
\* blank nor a comment
CarriesSQL ==
    {k \in DOMAIN runnerPending :
        \E p \in SQLPhases : HasNonEmptySQL([Content |-> runnerPending[k].sql[p]])}

\* C27: when more than one pending migration carries non-empty SQL, the run
\* spawns no script, runs no SQL, takes no schema dump and writes no ledger
\* row, and ends with a validation error.
C27_ValidationBeforeExecution ==
    Cardinality(CarriesSQL) > 1 =>
       /\ runner.events = <<>>
       /\ runner.pc = "done" => runner.err = "validation"

\* the root's entries after call k
ListingAfterCall(k) == IF k < Len(calls) THEN calls[k + 1].before ELSE listing

\* the ID and the directory call k computed
ComputedID(k) == getNextDeploymentID(calls[k].rootBefore, calls[k].before)

ComputedDir(k) == Entry(DirName(ComputedID(k), Sanitize(calls[k].raw)), TRUE)

\* call k failed in a file write, after it had created its directory
WriteFailed(k) == calls[k].fail = "write"

\* call k + 1 is a successful retry of the failed call k with the same name
Retried(k) ==
    /\ WriteFailed(k)
    /\ k < Len(calls)
    /\ calls[k + 1].raw = calls[k].raw
    /\ calls[k + 1].ok

C29_LedgerAppendOnly ==
    [][ /\ ledger \subseteq ledger'
        /\ ledger' # ledger =>
              /\ pc = "record"
              /\ \E id \in recordQueue \ ledger :
                    /\ ledger' = ledger \cup {id}
                    /\ events' = Append(events, RecordEvent(id, TRUE)) ]_vars

\* a run added a row to a ledger that held rows of an earlier run
C29_Witness ==
    /\ WrittenThisRun # {}
    /\ alreadyDeployed # {}
    /\ alreadyDeployed \subseteq ledger

\* the tasks started so far in this run, in the order they started
TaskEvents == SelectSeq(events, IsTaskEvent)

\* C30: at every point of a run the tasks started so far are the first
\* tasks of plan.Tasks, in list order, every one of them but the last has
\* returned successfully, and while the loop runs the next task to start is
\* the one after them.
C30_OneTaskAtATimeInListOrder ==
    /\ Len(TaskEvents) <= Len(tasks)
    /\ \A k \in DOMAIN TaskEvents : Runs(TaskEvents[k], tasks[k])
    /\ \A k \in DOMAIN TaskEvents : k < Len(TaskEvents) => TaskEvents[k].ok
    /\ pc = "loop" =>
          /\ idx = Len(TaskEvents) + 1
          /\ \A k \in DOMAIN TaskEvents : TaskEvents[k].ok

\* a run that stopped at the failure of its third task, in the second
\* deployment of the plan, with tasks left
C30_Witness ==
    /\ pc = "done"
    /\ Len(TaskEvents) = 3
    /\ ~TaskEvents[3].ok
    /\ Len(tasks) > 3
    /\ tasks[1].Deployment # tasks[3].Deployment

\* the tasks of deployment d in a task list, in list order
TasksOwnedBy(ts, d) == SelectSeq(ts, LAMBDA t : t.Deployment = d)

\* the tasks the files of phase p of deployment directory d call for
FileTasks(d, p) ==
    (IF dirs[d][p].sh = "exec" THEN <<Task("script", p, d)>> ELSE <<>>)
    \o (IF dirs[d][p].sql # "absent" /\ p # "post"
           THEN <<Task("sql", p, d)>> ELSE <<>>)

\* all of them, from the first phase on
AllFileTasks(d) ==
    FileTasks(d, "expand") \o FileTasks(d, "migrate")
    \o FileTasks(d, "contract") \o FileTasks(d, "post")

\* the run ended in the failure of a task or of a RecordDeployment call
RunFailed ==
    /\ pc = "done"
    /\ err = "error"
    /\ events # <<>>
    /\ ~events[Len(events)].ok

\* C31: the deployment at which a run failed, in a task or in its
\* RecordDeployment call, has no ledger row, and every BuildPlan lists, for
\* each local deployment without a ledger row, all the tasks of that
\* deployment from its first phase on, whatever earlier runs executed.
C31_FailedStaysPending ==
    /\ [](RunFailed => events[Len(events)].dep \notin ledger)
    /\ [][(pc = "idle" /\ pc' = "built") =>
             \A d \in DOMAIN dirs \ ledger :
                TasksOwnedBy(tasks', d) = AllFileTasks(d)]_vars

\* a plan built after a run that recorded some deployments and failed
\* before recording another one: that one is planned again
C31_Witness ==
    /\ pc = "built"
    /\ alreadyDeployed # {}
    /\ \E d \in Owners :
          /\ d \notin ledger
          /\ Len(TasksOwnedBy(tasks, d)) > 1

\* C32: after a run, the RecordDeployment calls of the run were issued in
\* ascending ID order, and no deployment is recorded by the run while a
\* pending deployment with a lower ID has no row.
C32_LedgerPrefixClosed ==
    pc = "done" =>
       /\ \A i, j \in EventIdx :
             (/\ i < j
              /\ events[i].kind = "record"
              /\ events[j].kind = "record")
             => events[i].dep < events[j].dep
       /\ \A d \in WrittenThisRun : \A e \in PendingAtPlan :
             e < d => e \in ledger

\* the deployments that own a task of run r's plan
PlannedBy(r) == {racers[r].tasks[k].Deployment : k \in DOMAIN racers[r].tasks}

\* C33: with two interleaved runs the ledger never holds two appliedRows for one
\* deployment ID, no deployment is recorded by both runs, and a run that
\* planned a deployment the other run recorded returns an error.
C33_OneRowPerDeployment ==
    /\ \A i, j \in DOMAIN appliedRows : appliedRows[i] = appliedRows[j] => i = j
    /\ racers["A"].recorded \cap racers["B"].recorded = {}
    /\ \A a, b \in Runners :
          (/\ a # b
           /\ racers[a].recorded \cap PlannedBy(b) # {}
           /\ racers[b].pc = "done")
          => racers[b].err = "error"

\* both runs planned the same two deployments and executed all their tasks;
\* each recorded one of them and failed at the other
C33_Witness ==
    /\ racers["A"].pc = "done" /\ racers["B"].pc = "done"
    /\ racers["A"].recorded # {} /\ racers["B"].recorded # {}
    /\ racers["A"].completed = racers["B"].completed
    /\ racers["A"].completed = racers["A"].recorded \cup racers["B"].recorded
    /\ racers["A"].err = "error" /\ racers["B"].err = "error"

\* some task of the plan has no owning Deployment
HasNilTask == \E k \in DOMAIN tasks : tasks[k].Deployment = NilDeployment

\* C34: when a task of the plan has no owning Deployment, a finished Execute
\* that did not fail earlier returned "missing deployment metadata"; it did
\* not crash, and it executed no task without a Deployment.
C34_MissingMetadataError ==
    /\ err # "panic"
    /\ \A i \in EventIdx : events[i].dep # NilDeployment
    /\ (pc = "done" /\ HasNilTask /\ ~RunFailed)
       => err = "missing deployment metadata"

\* a script or SQL step as both executors show it; only a script is given
\* ZDD_IS_HEAD
Step(type, dep, phase, isHead) ==
    [type |-> type, dep |-> dep, phase |-> phase,
     isHead |-> type = "script" /\ isHead]

\* the steps Plan.Execute has started
PlanSteps ==
    [k \in DOMAIN TaskEvents |->
        Step(TaskEvents[k].type, TaskEvents[k].dep, TaskEvents[k].phase,
             TaskEvents[k].isHead)]

IsStepEffect(e) == e.kind \in {"script", "sql"}

RunnerStepEffects == SelectSeq(runner.events, IsStepEffect)

\* the steps RunMigrations has started
RunnerSteps ==
    [k \in DOMAIN RunnerStepEffects |->
        Step(RunnerStepEffects[k].kind, RunnerStepEffects[k].mig,
             RunnerStepEffects[k].phase, RunnerIsHead(RunnerStepEffects[k].mig))]

\* the last thing RunMigrations did failed
RunnerFailed ==
    runner.pc = "done" /\ runner.err = "error" /\ runner.events # <<>>

\* the migrations RunMigrations has recorded
RunnerRows ==
    {runner.events[k].mig :
        k \in {j \in DOMAIN runner.events :
                 /\ runner.events[j].kind = "record"
                 /\ ~(RunnerFailed /\ j = Len(runner.events))}}

\* both returned nil
BothSucceeded == pc = "done" /\ err = "nil" /\ runner.pc = "done" /\ runner.err = "nil"

\* both returned the error of their k-th step, for the same k
BothFailedAtStep ==
    /\ RunFailed /\ events[Len(events)].kind = "task"
    /\ RunnerFailed /\ IsStepEffect(runner.events[Len(runner.events)])
    /\ Len(TaskEvents) = Len(RunnerStepEffects)

\* C35: over the same deployments and ledger, when both executors succeed or
\* both fail at their k-th step, Plan.Execute and RunMigrations have started
\* the same steps in the same order with the same ZDD_IS_HEAD values and
\* left the same ledger rows.
C35_ExecutorsEquivalent ==
    (BothSucceeded \/ BothFailedAtStep)
    => /\ PlanSteps = RunnerSteps
       /\ ledger = RunnerRows

\* the pending migrations ValidateOutstandingMigrations counts
Counted ==
    {k \in DOMAIN runnerPending :
        \E p \in SQLPhases : HasNonEmptyPhaseSQL(runnerPending[k], p)}

\* C36: ValidateOutstandingMigrations counts a pending migration exactly when
\* one of its expand, migrate or contract SQL files has a line that is neither
\* blank nor a `--` comment, and the run ends with the validation error if and
\* only if more than one pending migration has such a file.
C36_CountsStatementLines ==
    /\ Counted = CarriesSQL
    /\ runner.pc # "idle" =>
          (runner.err = "validation" <=> Cardinality(CarriesSQL) > 1)

TypeOK ==
    /\ DOMAIN dirs \subseteq IDs
    /\ ledger \subseteq IDs
    /\ pc \in {"idle", "built", "loop", "record", "done"}
    /\ err \in {"none", "nil", "error", "panic", "missing deployment metadata"}
    /\ completedDeployments \subseteq startedDeployments
    /\ unlistable \subseteq DOMAIN dirs
    /\ root \in {"missing", "present"}
    /\ ledgerQueries \in {0, 1}
====
